---- MODULE Spec2Model ----
(***************************************************************************)
(* VibeCheck scanner: the execution engine (engine/runRules.ts), the       *)
(* discovery prepass (utils/discoverAuthGuards.ts), the baseline           *)
(* suppression engine (engine/baseline.ts) and the exit contract           *)
(* (engine/report.ts), as state machines.                                  *)
(*                                                                         *)
(* Strings are TLA+ strings; \o, Len and SubSeq act on them as on          *)
(* sequences of characters.                                                *)
(***************************************************************************)
EXTENDS Integers, Sequences, FiniteSets, TLC

VARIABLES
  ctx,             \* RuleContext handed to runRules (ctx.config holds the stash)
  rules,           \* Rule[] handed to runRules
  out,             \* runRules: const out: Finding[]
  pc,              \* runRules: position in the function body
  ri,              \* runRules: index of the rule the for-loop is at (1-based)
  acc,             \* the running rule's own local accumulator (its `out`)
  discoveredAuth,  \* (ctx.config as any).__discoveredAuth
  writes,          \* history: number of assignments to __discoveredAuth
  invoked,         \* history: invoked[i] = number of calls of rules[i].run
  seenAuth,        \* history: values of __discoveredAuth rules saw when they started
  prepass,         \* history: outcome of the discoverAuthGuards call
  settled,         \* history: indices of the rules whose promise has settled
  findings,        \* cli: the list runRules returned to the command
  baselineFile,    \* the baseline file on disk
  recorded,        \* history: the baseline file was written by `baseline init` from findings
  result,          \* cli scan: findings after the --baseline step
  again,           \* applyBaseline applied to result with the same baseline
  strict,          \* cli scan: Boolean(opts.strict)
  exitStatus,      \* process.exitCode
  phase,           \* position in the command
  fileCode,        \* a rule's call-site scan: the code of the file being scanned
  idx,             \* a rule's call-site scan: the index of the call site in fileCode
  callName,        \* a rule's call-site scan: the Prisma call being looked for (`c`)
  extracted,       \* a rule's call-site scan: what extractInlineFirstArgObject returned
  whereBlock,      \* a rule's call-site scan: what extractWhereBlock returned
  tenantKeyFound,  \* a rule's call-site scan: what whereHasTenantKey returned
  summary,         \* report: what summarize returned
  sarif,           \* report: the results array of the SARIF log toSarif returned
  fileConfig,      \* loadConfig: what the configuration file of the repository holds
  cliOverride,     \* the commands: the override built from --stack and --auth
  step             \* position in the function under study, outside runRules and the commands

runVars == <<ctx, rules, out, pc, ri, acc, discoveredAuth, writes, invoked, seenAuth, prepass,
            settled>>
scanVars == <<findings, baselineFile, recorded, result, again, strict, exitStatus, phase>>
unitVars == <<fileCode, idx, callName, extracted, whereBlock, tenantKeyFound, summary, sarif, fileConfig, cliOverride, step>>
vars == <<ctx, rules, out, pc, ri, acc, discoveredAuth, writes, invoked, seenAuth, prepass, settled,
          findings, baselineFile, recorded, result, again, strict, exitStatus, phase,
          fileCode, idx, callName, extracted, whereBlock, tenantKeyFound, summary, sarif, fileConfig,
          cliOverride, step>>

(***************************************************************************)
(* Bounds of the model.                                                    *)
(***************************************************************************)
MaxRules == 3      \* longest rule list handed to runRules
MaxFindings == 3   \* longest finding list handed to the baseline engine

(***************************************************************************)
(* engine/types.ts                                                         *)
(***************************************************************************)
Severity == {"blocker", "high", "med", "low", "info"}
StackName == {"auto", "nextjs", "vite", "nestjs"}

\* an optional number field (line?, col?) that is undefined
Undefined == -1

\* Finding: ruleId, severity, message, file, line?, col?
Finding(ruleId, severity, message, file, line, col) ==
  [ruleId |-> ruleId, severity |-> severity, message |-> message,
   file |-> file, line |-> line, col |-> col]

(***************************************************************************)
(* String helpers (String.prototype.startsWith / endsWith / includes /     *)
(* trim), on TLA+ strings.                                                 *)
(***************************************************************************)
StartsWith(s, p) == Len(s) >= Len(p) /\ SubSeq(s, 1, Len(p)) = p
EndsWith(s, p) == Len(s) >= Len(p) /\ SubSeq(s, Len(s) - Len(p) + 1, Len(s)) = p
Includes(s, p) == \E i \in 1..(Len(s) - Len(p) + 1) : SubSeq(s, i, i + Len(p) - 1) = p

RECURSIVE TrimLeft(_)
TrimLeft(s) == IF Len(s) > 0 /\ SubSeq(s, 1, 1) = " " THEN TrimLeft(SubSeq(s, 2, Len(s))) ELSE s
RECURSIVE TrimRight(_)
TrimRight(s) ==
  IF Len(s) > 0 /\ SubSeq(s, Len(s), Len(s)) = " " THEN TrimRight(SubSeq(s, 1, Len(s) - 1)) ELSE s
Trim(s) == TrimRight(TrimLeft(s))

\* [...new Set(arr.filter(Boolean))]: drop empty strings, keep first occurrences
RECURSIVE uniq(_)
uniq(arr) ==
  IF arr = <<>> THEN <<>>
  ELSE LET init == uniq(SubSeq(arr, 1, Len(arr) - 1))
           last == arr[Len(arr)]
       IN  IF last = "" \/ (\E j \in 1..Len(init) : init[j] = last) THEN init
           ELSE Append(init, last)

Range(s) == {s[j] : j \in 1..Len(s)}

RECURSIVE Concat(_)
\* flatten a sequence of sequences (Array.prototype.push(...xs) applied in turn)
Concat(ss) == IF ss = <<>> THEN <<>> ELSE Concat(SubSeq(ss, 1, Len(ss) - 1)) \o ss[Len(ss)]

(***************************************************************************)
(* The file corpus.  A file is its absolute and root-relative path, whether *)
(* stat() succeeds on it, its size in bytes and its text.  Paths are posix  *)
(* paths (no backslash), which toPosix leaves unchanged.  A text is kept as *)
(* what the prepass's regular expressions read from it: the names of the    *)
(* exported functions and constants in match order, the catalogue names     *)
(* occurring in it as substrings, and the hint lines                        *)
(* (marker, token) in line order.                                           *)
(***************************************************************************)
RootDir == "/repo"

Code(exportFns, exportConsts, mentions, hints) ==
  [empty |-> FALSE, exportFns |-> exportFns, exportConsts |-> exportConsts,
   mentions |-> mentions, hints |-> hints, calls |-> <<>>]
EmptyText == [empty |-> TRUE, exportFns |-> <<>>, exportConsts |-> <<>>,
              mentions |-> <<>>, hints |-> <<>>, calls |-> <<>>]
\* a text in which the names `calls` are followed by an opening parenthesis
Calling(code, calls) == [code EXCEPT !.calls = calls]

File(rel, exists, size, code) ==
  [abs |-> RootDir \o "/" \o rel, rel |-> rel, exists |-> exists, size |-> size, code |-> code]

\* utils/readText.ts: stat() rejects for a path that cannot be stat'ed, an
\* oversize file reads as "", otherwise the text.
readText(f, maxBytes) ==
  IF ~f.exists THEN [ok |-> FALSE, error |-> "ENOENT: no such file or directory, stat '" \o f.abs \o "'"]
  ELSE IF f.size > maxBytes THEN [ok |-> TRUE, code |-> EmptyText]
  ELSE [ok |-> TRUE, code |-> f.code]

(***************************************************************************)
(* utils/discoverAuthGuards.ts                                             *)
(***************************************************************************)
COMMON_GUARDS ==
  <<"getServerSession", "unstable_getServerSession", "auth", "currentUser", "requireAuth",
    "requireUser", "requireWorkspace", "requireAuthedWorkspace", "withWorkspace",
    "withFeatureFlag">>

UpperCase == "ABCDEFGHIJKLMNOPQRSTUVWXYZ"
LowerCase == "abcdefghijklmnopqrstuvwxyz"
ToLowerChar(c) ==
  IF \E k \in 1..Len(UpperCase) : SubSeq(UpperCase, k, k) = c
  THEN LET k == CHOOSE k \in 1..Len(UpperCase) : SubSeq(UpperCase, k, k) = c
       IN  SubSeq(LowerCase, k, k)
  ELSE c
RECURSIVE ToLower(_)
ToLower(s) == IF s = "" THEN "" ELSE ToLowerChar(SubSeq(s, 1, 1)) \o ToLower(SubSeq(s, 2, Len(s)))

\* /^require/i.test(name) || /^with/i.test(name)
MatchesGuardConvention(name) ==
  \/ Len(name) >= 7 /\ ToLower(SubSeq(name, 1, 7)) = "require"
  \/ Len(name) >= 4 /\ ToLower(SubSeq(name, 1, 4)) = "with"

normalizeApiPath(p) ==
  LET s0 == Trim(p)
      s1 == IF s0 = "" THEN s0 ELSE IF ~StartsWith(s0, "/") THEN "/" \o s0 ELSE s0
  IN  IF s0 = "" THEN s0
      ELSE IF Len(s1) > 1 /\ EndsWith(s1, "/") THEN SubSeq(s1, 1, Len(s1) - 1) ELSE s1

\* names declared in one pass of a declaration regex that count as guards
RECURSIVE DeclaredGuards(_)
DeclaredGuards(names) ==
  IF names = <<>> THEN <<>>
  ELSE LET name == Head(names)
           hit == name # "" /\ (name \in Range(COMMON_GUARDS) \/ MatchesGuardConvention(name))
       IN  (IF hit THEN <<name>> ELSE <<>>) \o DeclaredGuards(Tail(names))

\* the Set `guards` of discoverAuthGuardsFromCode, in insertion order
discoverAuthGuardsFromCode(code) ==
  uniq(DeclaredGuards(code.exportFns) \o DeclaredGuards(code.exportConsts)
       \o SelectSeq(COMMON_GUARDS, LAMBDA g : g \in Range(code.mentions)))

shouldScanFileForGuards(p) ==
  \/ Includes(p, "/api/") \/ Includes(p, "/auth")
  \/ EndsWith(p, ".ts") \/ EndsWith(p, ".tsx") \/ EndsWith(p, ".js") \/ EndsWith(p, ".jsx")

\* /\.(ts|tsx|js|jsx)$/.test(p)
HasSourceExtension(p) ==
  EndsWith(p, ".ts") \/ EndsWith(p, ".tsx") \/ EndsWith(p, ".js") \/ EndsWith(p, ".jsx")

HintTokens(hints, marker) ==
  LET sel == SelectSeq(hints, LAMBDA h : h.marker = marker /\ h.token # "")
  IN  [j \in 1..Len(sel) |-> normalizeApiPath(sel[j].token)]

discoverPublicApiHints(code) ==
  [publicApiExact |-> HintTokens(code.hints, "public-api"),
   publicApiPrefix |-> HintTokens(code.hints, "public-api-prefix"),
   proxyApiPrefix |-> HintTokens(code.hints, "proxy-api-prefix")]

inferProxyPrefixesFromPath(posixPath) ==
  LET found ==
        (IF Includes(posixPath, "/app/api/embed-proxy/") THEN <<"/api/embed-proxy">> ELSE <<>>)
        \o (IF Includes(posixPath, "/app/api/og/") THEN <<"/api/og">> ELSE <<>>)
        \o (IF Includes(posixPath, "/app/api/stripe/webhook/") THEN <<"/api/stripe/webhook">> ELSE <<>>)
        \o (IF Includes(posixPath, "/app/api/health/") THEN <<"/api/health">> ELSE <<>>)
        \o (IF Includes(posixPath, "/app/api/_debug/") THEN <<"/api/_debug">> ELSE <<>>)
  IN  [j \in 1..Len(found) |-> normalizeApiPath(found[j])]

\* ctx.config.auth is an AuthKind string unless the configuration file gave an
\* object; only an object can carry the four arrays.
CfgList(c, field) ==
  IF c.config.auth.isObject THEN c.config.auth[field] ELSE <<>>

mergeWithUserConfig(discovered, c) ==
  LET cfgGuards == CfgList(c, "guards")
      trimmed == [j \in 1..Len(cfgGuards) |-> Trim(cfgGuards[j])]
      norm(xs) == [j \in 1..Len(xs) |-> normalizeApiPath(xs[j])]
  IN  [guards |-> uniq(discovered.guards \o SelectSeq(trimmed, LAMBDA g : g # "")),
       publicApiExact |-> uniq(discovered.publicApiExact \o norm(CfgList(c, "publicApiExact"))),
       publicApiPrefix |-> uniq(discovered.publicApiPrefix \o norm(CfgList(c, "publicApiPrefix"))),
       proxyApiPrefix |-> uniq(discovered.proxyApiPrefix \o norm(CfgList(c, "proxyApiPrefix")))]

\* the for-loop of discoverAuthGuards from file i on; st holds the four locals
RECURSIVE DiscoverLoop(_, _, _)
DiscoverLoop(c, i, st) ==
  IF i > Len(c.files) THEN [ok |-> TRUE, st |-> st]
  ELSE LET f == c.files[i]
           p == f.rel
       IN  IF ~HasSourceExtension(p) \/ ~shouldScanFileForGuards(p) THEN DiscoverLoop(c, i + 1, st)
           ELSE LET rd == readText(f, c.config.maxFileBytes)
                IN  IF ~rd.ok THEN [ok |-> FALSE, error |-> rd.error]
                    ELSE IF rd.code.empty THEN DiscoverLoop(c, i + 1, st)
                    ELSE LET hints == discoverPublicApiHints(rd.code)
                         IN  DiscoverLoop(c, i + 1,
                               [guards |-> uniq(st.guards \o discoverAuthGuardsFromCode(rd.code)),
                                publicApiExact |-> st.publicApiExact \o hints.publicApiExact,
                                publicApiPrefix |-> st.publicApiPrefix \o hints.publicApiPrefix,
                                proxyApiPrefix |-> st.proxyApiPrefix \o hints.proxyApiPrefix
                                                   \o inferProxyPrefixesFromPath(p)])

\* discoverAuthGuards whose guard set starts empty
discoverAuthGuardsOfCorpus(c) ==
  LET run == DiscoverLoop(c, 1, [guards |-> <<>>, publicApiExact |-> <<>>,
                                 publicApiPrefix |-> <<>>, proxyApiPrefix |-> <<>>])
      norm(xs) == [j \in 1..Len(xs) |-> normalizeApiPath(xs[j])]
  IN  IF ~run.ok THEN run
      ELSE [ok |-> TRUE,
            value |-> mergeWithUserConfig(
                        [guards |-> uniq(run.st.guards),
                         publicApiExact |-> uniq(norm(run.st.publicApiExact)),
                         publicApiPrefix |-> uniq(norm(run.st.publicApiPrefix)),
                         proxyApiPrefix |-> uniq(norm(run.st.proxyApiPrefix))], c)]

\* Promise<DiscoveredAuth>: [ok |-> TRUE, value] when it resolves,
\* [ok |-> FALSE, error] when a read rejects
discoverAuthGuards(c) ==
  LET run == DiscoverLoop(c, 1, [guards |-> COMMON_GUARDS, publicApiExact |-> <<>>,
                                 publicApiPrefix |-> <<>>, proxyApiPrefix |-> <<>>])
      norm(xs) == [j \in 1..Len(xs) |-> normalizeApiPath(xs[j])]
  IN  IF ~run.ok THEN run
      ELSE [ok |-> TRUE,
            value |-> mergeWithUserConfig(
                        [guards |-> uniq(run.st.guards),
                         publicApiExact |-> uniq(norm(run.st.publicApiExact)),
                         publicApiPrefix |-> uniq(norm(run.st.publicApiPrefix)),
                         proxyApiPrefix |-> uniq(norm(run.st.proxyApiPrefix))], c)]

(***************************************************************************)
(* Contexts and rules handed to runRules.                                  *)
(***************************************************************************)
DefaultMaxFileBytes == 1000000

\* config.auth as the CLI leaves it: the --auth string
AuthString(kind) ==
  [isObject |-> FALSE, kind |-> kind, guards |-> <<>>, publicApiExact |-> <<>>,
   publicApiPrefix |-> <<>>, proxyApiPrefix |-> <<>>]

DefaultConfig ==
  [stack |-> "auto", auth |-> AuthString("auto"),
   authGuards |-> <<"getServerSession", "auth", "unstable_getServerSession">>,
   maxFileBytes |-> DefaultMaxFileBytes]

RouteCode ==
  Code(<<"GET", "requireAdmin">>, <<"withTenant">>, <<"auth">>,
       <<[marker |-> "public-api", token |-> "api/health/"]>>)

\* a corpus every file of which can be read
CorpusReadable ==
  <<File("README.md", TRUE, 10, EmptyText),
    File("src/app/api/og/route.ts", TRUE, 120, RouteCode),
    File("src/lib/bundle.ts", TRUE, DefaultMaxFileBytes + 1,
         Code(<<"requireBundle">>, <<>>, <<>>, <<>>))>>
\* a corpus whose second file has been removed since the enumeration
CorpusUnreadable ==
  <<File("src/app/api/og/route.ts", TRUE, 120, RouteCode),
    File("src/lib/gone.ts", FALSE, 0, EmptyText)>>

Context(stack, files) ==
  [rootDir |-> RootDir, files |-> files, config |-> DefaultConfig, repo |-> [stack |-> stack]]

Contexts ==
  {Context(stack, files) : stack \in {"nextjs", "vite"},
                           files \in {CorpusReadable, CorpusUnreadable}}
  \cup {Context("nestjs", CorpusReadable), Context("auto", CorpusUnreadable)}

(***************************************************************************)
(* engine/configLoader.ts and the configuration the commands resolve.      *)
(***************************************************************************)
\* "auth": { guards, publicApiExact, publicApiPrefix, proxyApiPrefix } as the
\* discovery module suggests to write it in vibecheck.json
AuthObject(guards, publicApiExact, publicApiPrefix, proxyApiPrefix) ==
  [isObject |-> TRUE, kind |-> "", guards |-> guards, publicApiExact |-> publicApiExact,
   publicApiPrefix |-> publicApiPrefix, proxyApiPrefix |-> proxyApiPrefix]

\* what JSON.parse of the configuration file gave: the keys it has
FileConfig(hasAuth, auth, hasAuthGuards, authGuards) ==
  [hasAuth |-> hasAuth, auth |-> auth, hasAuthGuards |-> hasAuthGuards, authGuards |-> authGuards,
   hasStack |-> FALSE, stack |-> "auto"]
\* the same file with the key "stack"
WithStack(fc, stack) == [fc EXCEPT !.hasStack = TRUE, !.stack = stack]
\* no configuration file: fileConfig stays {}
NoFileConfig == FileConfig(FALSE, AuthString("auto"), FALSE, <<>>)

FileAuths ==
  {AuthString("clerk"),
   AuthObject(<<"checkSession", " requireAuth ">>, <<"/api/health">>, <<>>, <<"api/hooks//">>),
   AuthObject(<<>>, <<"/">>, <<"/api/embed-proxy", "/api/embed-proxy/">>, <<>>)}
FileConfigs ==
  {FileConfig(FALSE, AuthString("auto"), ag[1], ag[2]) : ag \in {<<FALSE, <<>>>>, <<TRUE, <<"checkSession">>>>}}
  \cup {FileConfig(TRUE, a, ag[1], ag[2]) :
          a \in FileAuths, ag \in {<<FALSE, <<>>>>, <<TRUE, <<"checkSession">>>>}}

\* cliOverride: { stack: parseStack(opts.stack), auth: opts.auth ?? "auto" }
CliOverride(stack, kind) == [stack |-> stack, auth |-> AuthString(kind)]

\* Array.from(new Set(arr)): first occurrences, in order
RECURSIVE Distinct(_)
Distinct(arr) ==
  IF arr = <<>> THEN <<>>
  ELSE LET init == Distinct(SubSeq(arr, 1, Len(arr) - 1))
       IN  IF arr[Len(arr)] \in Range(init) THEN init ELSE Append(init, arr[Len(arr)])

\* the files fast-glob returns for src/**/*.ts(x) and app/**/*.ts(x), less
\* node_modules, dist and .next (fewer than 400 in every corpus here)
GuardCandidates(files) ==
  SelectSeq(files, LAMBDA f :
    /\ f.exists
    /\ StartsWith(f.rel, "src/") \/ StartsWith(f.rel, "app/")
    /\ EndsWith(f.rel, ".ts") \/ EndsWith(f.rel, ".tsx")
    /\ ~Includes(f.rel, "node_modules/") /\ ~Includes(f.rel, "dist/") /\ ~Includes(f.rel, ".next/"))

\* defaults, then the file's keys, then the override's (which always has the
\* keys stack and auth, so the file's stack and auth are overwritten); then the
\* guards found in the candidates (read whole, whatever their size) join
\* authGuards
loadConfig(fc, override, files) ==
  LET merged == [stack |-> override.stack,
                 auth |-> override.auth,
                 authGuards |-> IF fc.hasAuthGuards THEN fc.authGuards
                                ELSE <<"getServerSession", "auth", "unstable_getServerSession">>,
                 maxFileBytes |-> DefaultMaxFileBytes]
      scanned == SelectSeq(GuardCandidates(files), LAMBDA f : shouldScanFileForGuards(f.rel))
      found == Distinct(Concat([j \in 1..Len(scanned) |-> discoverAuthGuardsFromCode(scanned[j].code)]))
  IN  IF found # <<>> THEN [merged EXCEPT !.authGuards = Distinct(merged.authGuards \o found)]
      ELSE merged

\* a value a rule's promise rejects with: an Error, or a bare string
ErrorValue(message) == [isError |-> TRUE, text |-> message]
StringValue(text) == [isError |-> FALSE, text |-> text]
NoValue == [isError |-> FALSE, text |-> ""]

\* String(e?.message ?? e)
FailureText(e) == e.text

\* What one call of rule.run does: it pushes `emits` findings onto its own
\* accumulator, then settles.  kind "return": the promise resolves with the
\* accumulator; "reject": the async function throws, the promise rejects;
\* "throw": run is not an async function and throws before it returns a promise;
\* "undefined": the promise resolves with undefined.
Run(emits, kind, reason) == [emits |-> emits, kind |-> kind, reason |-> reason]

\* every rule of the repository is declared `async run(ctx)` and returns its
\* accumulator: such a call resolves with a list or rejects
AsyncRuns ==
  {Run(0, "return", NoValue), Run(2, "return", NoValue),
   Run(2, "reject", ErrorValue("boom")), Run(0, "reject", StringValue("oops"))}
\* calls the declared type (ctx) => Promise<Finding[]> also admits at run time
OtherRuns ==
  {Run(1, "throw", ErrorValue("sync")), Run(1, "undefined", NoValue)}

StackSets == {{"nextjs", "auto"}, {"nestjs"}}

RuleId(j) == "rule-" \o ToString(j)

\* the list of n rules with the given stack sets and run behaviours
RuleList(n, ss, rs) == [j \in 1..n |-> [id |-> RuleId(j), stack |-> ss[j], run |-> rs[j]]]

\* the k-th finding rule pushes; every rule reports the same locations
RuleFinding(rule, k) ==
  Finding(rule.id, IF k = 1 THEN "high" ELSE "low", "issue", RootDir \o "/src/app/page.tsx", k, 0)

(***************************************************************************)
(* engine/runRules.ts                                                      *)
(***************************************************************************)
Unset == [state |-> "unset", guards |-> <<>>, publicApiExact |-> <<>>,
          publicApiPrefix |-> <<>>, proxyApiPrefix |-> <<>>]
\* the object {}
EmptyObject == [state |-> "empty", guards |-> <<>>, publicApiExact |-> <<>>,
                publicApiPrefix |-> <<>>, proxyApiPrefix |-> <<>>]
Signals(d) == [state |-> "signals", guards |-> d.guards, publicApiExact |-> d.publicApiExact,
               publicApiPrefix |-> d.publicApiPrefix, proxyApiPrefix |-> d.proxyApiPrefix]

DiscoveryFailure(c, message) ==
  Finding("discover-auth-guards", "info", "Auth discovery failed: " \o message,
          c.rootDir, Undefined, Undefined)

RuleCrash(c, rule, e) ==
  Finding(rule.id, "info", "Rule crashed: " \o FailureText(e), c.rootDir, Undefined, Undefined)

\* RuleApplies with the wildcard test left out
RuleAppliesExactStackOnly(rule, c) == c.repo.stack \in rule.stack

\* the negation of the `continue` test of the for-loop
RuleApplies(rule, c) == "auto" \in rule.stack \/ c.repo.stack \in rule.stack

\* try { discovered = await discoverAuthGuards(ctx); stash }
PrepassResolves ==
  /\ pc = "prepass"
  /\ LET discovered == discoverAuthGuards(ctx)
     IN  /\ discovered.ok
         /\ discoveredAuth' = Signals(discovered.value)
  /\ writes' = writes + 1
  /\ prepass' = "resolved"
  /\ pc' = "loop"
  /\ UNCHANGED <<ctx, rules, out, ri, acc, invoked, seenAuth, settled>>
  /\ UNCHANGED scanVars
  /\ UNCHANGED unitVars

\* PrepassRejects without the try/catch: the rejection leaves runRules
PrepassRejectsUncaught ==
  /\ pc = "prepass"
  /\ ~discoverAuthGuards(ctx).ok
  /\ prepass' = "rejected"
  /\ pc' = "rejected"
  /\ UNCHANGED <<ctx, rules, out, ri, acc, discoveredAuth, writes, invoked, seenAuth, settled>>
  /\ UNCHANGED scanVars
  /\ UNCHANGED unitVars

\* PrepassRejects with the assignment of {} in the catch block left out
PrepassRejectsNoStash ==
  /\ pc = "prepass"
  /\ LET discovered == discoverAuthGuards(ctx)
     IN  /\ ~discovered.ok
         /\ out' = Append(out, DiscoveryFailure(ctx, discovered.error))
  /\ prepass' = "rejected"
  /\ pc' = "loop"
  /\ UNCHANGED <<ctx, rules, ri, acc, discoveredAuth, writes, invoked, seenAuth, settled>>
  /\ UNCHANGED scanVars
  /\ UNCHANGED unitVars

\* catch (e) { out.push(info finding); stash {} }
PrepassRejects ==
  /\ pc = "prepass"
  /\ LET discovered == discoverAuthGuards(ctx)
     IN  /\ ~discovered.ok
         /\ out' = Append(out, DiscoveryFailure(ctx, discovered.error))
  /\ discoveredAuth' = EmptyObject
  /\ writes' = writes + 1
  /\ prepass' = "rejected"
  /\ pc' = "loop"
  /\ UNCHANGED <<ctx, rules, ri, acc, invoked, seenAuth, settled>>
  /\ UNCHANGED scanVars
  /\ UNCHANGED unitVars

\* if (!rule.stack.includes("auto") && !rule.stack.includes(ctx.repo.stack)) continue
SkipRule ==
  /\ pc = "loop"
  /\ ri <= Len(rules)
  /\ ~RuleApplies(rules[ri], ctx)
  /\ ri' = ri + 1
  /\ UNCHANGED <<ctx, rules, out, pc, acc, discoveredAuth, writes, invoked, seenAuth, prepass, settled>>
  /\ UNCHANGED scanVars
  /\ UNCHANGED unitVars

\* InvokeRule without the await: the loop goes on while the promise is pending
InvokeRuleUnawaited ==
  /\ pc = "loop"
  /\ ri <= Len(rules)
  /\ RuleApplies(rules[ri], ctx)
  /\ rules[ri].run.kind # "throw"
  /\ ri' = ri + 1
  /\ invoked' = [invoked EXCEPT ![ri] = @ + 1]
  /\ seenAuth' = seenAuth \cup {discoveredAuth}
  /\ UNCHANGED <<ctx, rules, out, pc, acc, discoveredAuth, writes, prepass, settled>>
  /\ UNCHANGED scanVars
  /\ UNCHANGED unitVars

\* rule.run(ctx) is called and returns its promise, which the loop awaits; the
\* rule reads the stash
InvokeRule ==
  /\ pc = "loop"
  /\ ri <= Len(rules)
  /\ RuleApplies(rules[ri], ctx)
  /\ rules[ri].run.kind # "throw"
  /\ pc' = "running"
  /\ acc' = <<>>
  /\ invoked' = [invoked EXCEPT ![ri] = @ + 1]
  /\ seenAuth' = seenAuth \cup {discoveredAuth}
  /\ UNCHANGED <<ctx, rules, out, ri, discoveredAuth, writes, prepass, settled>>
  /\ UNCHANGED scanVars
  /\ UNCHANGED unitVars

\* inside the rule: out.push(finding) on the rule's own accumulator
RuleEmits ==
  /\ pc = "running"
  /\ Len(acc) < rules[ri].run.emits
  /\ acc' = Append(acc, RuleFinding(rules[ri], Len(acc) + 1))
  /\ UNCHANGED <<ctx, rules, out, pc, ri, discoveredAuth, writes, invoked, seenAuth, prepass, settled>>
  /\ UNCHANGED scanVars
  /\ UNCHANGED unitVars

\* RuleResolves pushing only findings at locations not yet reported
RuleResolvesDeduplicating ==
  /\ pc = "running"
  /\ Len(acc) = rules[ri].run.emits
  /\ rules[ri].run.kind = "return"
  /\ out' = out \o SelectSeq(acc, LAMBDA f :
                    ~\E k \in 1..Len(out) : out[k].file = f.file /\ out[k].line = f.line)
  /\ acc' = <<>>
  /\ ri' = ri + 1
  /\ pc' = "loop"
  /\ settled' = settled \cup {ri}
  /\ UNCHANGED <<ctx, rules, discoveredAuth, writes, invoked, seenAuth, prepass>>
  /\ UNCHANGED scanVars
  /\ UNCHANGED unitVars

\* the promise resolves with the accumulator: out.push(...findings)
RuleResolves ==
  /\ pc = "running"
  /\ Len(acc) = rules[ri].run.emits
  /\ rules[ri].run.kind = "return"
  /\ out' = out \o acc
  /\ acc' = <<>>
  /\ ri' = ri + 1
  /\ pc' = "loop"
  /\ settled' = settled \cup {ri}
  /\ UNCHANGED <<ctx, rules, discoveredAuth, writes, invoked, seenAuth, prepass>>
  /\ UNCHANGED scanVars
  /\ UNCHANGED unitVars

\* RuleRejects keeping what the rule had accumulated before it failed
RuleRejectsKeepingPartial ==
  /\ pc = "running"
  /\ Len(acc) = rules[ri].run.emits
  /\ rules[ri].run.kind = "reject"
  /\ out' = out \o acc \o <<RuleCrash(ctx, rules[ri], rules[ri].run.reason)>>
  /\ acc' = <<>>
  /\ ri' = ri + 1
  /\ pc' = "loop"
  /\ settled' = settled \cup {ri}
  /\ UNCHANGED <<ctx, rules, discoveredAuth, writes, invoked, seenAuth, prepass>>
  /\ UNCHANGED scanVars
  /\ UNCHANGED unitVars

\* the promise rejects: .catch returns the one crash finding, which is pushed
RuleRejects ==
  /\ pc = "running"
  /\ Len(acc) = rules[ri].run.emits
  /\ rules[ri].run.kind = "reject"
  /\ out' = out \o <<RuleCrash(ctx, rules[ri], rules[ri].run.reason)>>
  /\ acc' = <<>>
  /\ ri' = ri + 1
  /\ pc' = "loop"
  /\ settled' = settled \cup {ri}
  /\ UNCHANGED <<ctx, rules, discoveredAuth, writes, invoked, seenAuth, prepass>>
  /\ UNCHANGED scanVars
  /\ UNCHANGED unitVars

\* return out
Return ==
  /\ pc = "loop"
  /\ ri > Len(rules)
  /\ pc' = "returned"
  /\ UNCHANGED <<ctx, rules, out, ri, acc, discoveredAuth, writes, invoked, seenAuth, prepass, settled>>
  /\ UNCHANGED scanVars
  /\ UNCHANGED unitVars

\* rule.run(ctx) throws before .catch is attached: the exception leaves the
\* for-loop and runRules' own promise rejects
RuleThrows ==
  /\ pc = "loop"
  /\ ri <= Len(rules)
  /\ RuleApplies(rules[ri], ctx)
  /\ rules[ri].run.kind = "throw"
  /\ invoked' = [invoked EXCEPT ![ri] = @ + 1]
  /\ seenAuth' = seenAuth \cup {discoveredAuth}
  /\ pc' = "rejected"
  /\ UNCHANGED <<ctx, rules, out, ri, acc, discoveredAuth, writes, prepass, settled>>
  /\ UNCHANGED scanVars
  /\ UNCHANGED unitVars

\* the promise resolves with undefined: out.push(...undefined) throws a
\* TypeError outside any handler and runRules' own promise rejects
RuleResolvesUndefined ==
  /\ pc = "running"
  /\ Len(acc) = rules[ri].run.emits
  /\ rules[ri].run.kind = "undefined"
  /\ pc' = "rejected"
  /\ settled' = settled \cup {ri}
  /\ UNCHANGED <<ctx, rules, out, ri, acc, discoveredAuth, writes, invoked, seenAuth, prepass>>
  /\ UNCHANGED scanVars
  /\ UNCHANGED unitVars

ScanIdle ==
  /\ findings = <<>>
  /\ baselineFile = [exists |-> FALSE, parses |-> FALSE, hasItems |-> FALSE, items |-> <<>>]
  /\ recorded = FALSE
  /\ result = <<>>
  /\ again = <<>>
  /\ strict = FALSE
  /\ exitStatus = Undefined
  /\ phase = "idle"

\* no call-site scan and no report in progress
NoSummary == [s \in Severity |-> 0]
ConfigIdle ==
  /\ fileConfig = NoFileConfig
  /\ cliOverride = CliOverride("auto", "auto")
UnitIdle ==
  /\ ConfigIdle
  /\ fileCode = ""
  /\ idx = 0
  /\ callName = ""
  /\ extracted = [isNull |-> TRUE, text |-> ""]
  /\ whereBlock = [isNull |-> TRUE, text |-> ""]
  /\ tenantKeyFound = FALSE
  /\ summary = NoSummary
  /\ sarif = <<>>
  /\ step = "idle"

RunInit(runs) ==
  /\ ctx \in Contexts
  /\ \E n \in 0..MaxRules : \E ss \in [1..n -> StackSets] : \E rs \in [1..n -> runs] :
       rules = RuleList(n, ss, rs)
  /\ out = <<>>
  /\ pc = "prepass"
  /\ ri = 1
  /\ acc = <<>>
  /\ discoveredAuth = Unset
  /\ writes = 0
  /\ invoked = [j \in 1..Len(rules) |-> 0]
  /\ seenAuth = {}
  /\ prepass = "pending"
  /\ settled = {}

\* runRules on a list of async rules
Init == RunInit(AsyncRuns) /\ ScanIdle /\ UnitIdle

Next ==
  \/ PrepassResolves
  \/ PrepassRejects
  \/ SkipRule
  \/ InvokeRule
  \/ RuleEmits
  \/ RuleResolves
  \/ RuleRejects
  \/ Return

Spec == Init /\ [][Next]_vars

\* runRules on any list the type Rule[] admits at run time
InitAnyRule == RunInit(AsyncRuns \cup OtherRuns) /\ ScanIdle /\ UnitIdle

NextAnyRule ==
  \/ PrepassResolves
  \/ PrepassRejects
  \/ SkipRule
  \/ InvokeRule
  \/ RuleEmits
  \/ RuleResolves
  \/ RuleRejects
  \/ Return
  \/ RuleThrows
  \/ RuleResolvesUndefined

SpecAnyRule == InitAnyRule /\ [][NextAnyRule]_vars

(***************************************************************************)
(* Properties of runRules.                                                 *)
(***************************************************************************)
\* rule j's stack set holds the context's resolved stack or the wildcard
Applicable(j) == "auto" \in rules[j].stack \/ ctx.repo.stack \in rules[j].stack

\* what rule j returns when its detection operation does not fail
Emitted(j) == [k \in 1..rules[j].run.emits |-> RuleFinding(rules[j], k)]

\* the findings of the output that carry a rule id, in output order
ByRule(id) == SelectSeq(out, LAMBDA f : f.ruleId = id)

Failed(j) == Applicable(j) /\ rules[j].run.kind = "reject"

C2_NeverFails == pc # "rejected"

\* C6: when the prepass has failed, the output starts with the one info
\* finding that names the discovery failure, the stash is the empty object,
\* runRules is never stuck before it returns, and when it returns every
\* applicable rule has been run.
C6_DiscoveryFailureContinues ==
  prepass = "rejected" =>
    /\ Len(ByRule("discover-auth-guards")) = 1
    /\ out[1].ruleId = "discover-auth-guards"
    /\ out[1].severity = "info"
    /\ StartsWith(out[1].message, "Auth discovery failed: ")
    /\ discoveredAuth = EmptyObject
    /\ pc # "rejected"
    /\ pc # "returned" => ENABLED Next
    /\ pc = "returned" => \A j \in 1..Len(rules) : Applicable(j) => invoked[j] = 1

C6_Witness ==
  /\ prepass = "rejected"
  /\ pc = "returned"
  /\ \E j \in 1..Len(rules) : invoked[j] = 1 /\ Len(ByRule(rules[j].id)) > 0

\* C7: the discovered-signals slot is assigned exactly once, before any rule
\* is invoked, and every rule that starts sees the value it still holds.
C7_StashWrittenOnce ==
  /\ pc = "prepass" =>
       writes = 0 /\ discoveredAuth = Unset /\ \A j \in 1..Len(rules) : invoked[j] = 0
  /\ pc # "prepass" => writes = 1 /\ discoveredAuth # Unset
  /\ seenAuth \subseteq {discoveredAuth}

C7_Witness ==
  /\ pc = "returned"
  /\ writes = 1
  /\ seenAuth = {discoveredAuth}
  /\ \E j, k \in 1..Len(rules) : j # k /\ invoked[j] = 1 /\ invoked[k] = 1

\* what rule j adds to the output
Contribution(j) ==
  IF ~Applicable(j) THEN <<>>
  ELSE IF rules[j].run.kind = "reject"
       THEN <<Finding(rules[j].id, "info", "Rule crashed: " \o rules[j].run.reason.text,
                      ctx.rootDir, Undefined, Undefined)>>
       ELSE Emitted(j)

\* C8: at every point of the loop the output is the discovery-failure finding
\* (if any) followed by the finding lists of the rules passed so far, in
\* registration order, each list in the order produced, nothing dropped or
\* merged.
C8_ConcatenationInOrder ==
  pc \in {"loop", "running", "returned"} =>
    /\ Len(out) >= (IF prepass = "rejected" THEN 1 ELSE 0)
    /\ prepass = "rejected" => out[1].ruleId = "discover-auth-guards"
    /\ SubSeq(out, (IF prepass = "rejected" THEN 2 ELSE 1), Len(out))
         = Concat([j \in 1..(ri - 1) |-> Contribution(j)])

\* two rules reported the same location and both findings are in the output,
\* after a discovery-failure finding
C8_Witness ==
  /\ pc = "returned"
  /\ prepass = "rejected"
  /\ \E a, b \in 1..Len(out) :
       /\ a < b
       /\ out[a].ruleId # out[b].ruleId
       /\ out[a].file = out[b].file /\ out[a].line = out[b].line /\ out[a].line # Undefined

\* C9: a rule is invoked at most once, never when its stack set holds neither
\* the resolved stack nor the wildcard, and exactly once by the time runRules
\* returns when it holds one of them.
C9_StackFilter ==
  /\ \A j \in 1..Len(rules) : invoked[j] <= 1 /\ (~Applicable(j) => invoked[j] = 0)
  /\ pc = "returned" => \A j \in 1..Len(rules) : Applicable(j) => invoked[j] = 1

\* one rule ran through the wildcard alone and another was skipped
C9_Witness ==
  /\ pc = "returned"
  /\ \E j \in 1..Len(rules) : invoked[j] = 1 /\ ctx.repo.stack \notin rules[j].stack
  /\ \E j \in 1..Len(rules) : invoked[j] = 0

\* C11: a file that is unreadable or larger than the byte limit reads as empty
\* text through the file accessor, so the discovery prepass never fails
\* because of a file of the corpus.
C11_ReadFailureNeverPropagates ==
  /\ prepass # "rejected"
  /\ \A i \in 1..Len(out) : out[i].ruleId # "discover-auth-guards"

\* the rules whose run has been called and whose promise has not settled
InProgress == {j \in 1..Len(rules) : invoked[j] > 0 /\ j \notin settled}

\* C18: at most one rule is in progress at any point, it is the rule the loop
\* is awaiting, and every rule called before it has settled.
C18_StrictlySequential ==
  /\ Cardinality(InProgress) <= 1
  /\ \A j \in InProgress :
       /\ pc = "running"
       /\ j = ri
       /\ \A k \in 1..(j - 1) : invoked[k] > 0 => k \in settled

\* a rule suspended after its first finding, while an earlier rule has settled
\* and a later one has not been called
C18_Witness ==
  /\ pc = "running"
  /\ InProgress = {ri}
  /\ Len(acc) = 1
  /\ \E k \in 1..(ri - 1) : k \in settled
  /\ \E k \in (ri + 1)..Len(rules) : invoked[k] = 0 /\ RuleApplies(rules[k], ctx)

(***************************************************************************)
(* engine/baseline.ts                                                      *)
(***************************************************************************)
\* String(f.line ?? "")
NumberText(n) == IF n = Undefined THEN "" ELSE ToString(n)

\* [ruleId, severity, file, line, col, message].join("|")
keyOf(f) ==
  f.ruleId \o "|" \o f.severity \o "|" \o f.file \o "|" \o NumberText(f.line) \o "|"
  \o NumberText(f.col) \o "|" \o f.message

\* the Map `counts` of writeBaseline after the first n findings, as its
\* entries in insertion order
RECURSIVE CountEntries(_, _)
CountEntries(fs, n) ==
  IF n = 0 THEN <<>>
  ELSE LET before == CountEntries(fs, n - 1)
           k == keyOf(fs[n])
       IN  IF \E i \in 1..Len(before) : before[i].key = k
           THEN [i \in 1..Len(before) |->
                   IF before[i].key = k THEN [key |-> k, count |-> before[i].count + 1]
                   ELSE before[i]]
           ELSE Append(before, [key |-> k, count |-> 1])

\* the baseline file on disk: absent, text JSON.parse rejects, JSON text of
\* some other value (null, {}, [], 1: no `items` array), or a baseline document
NoBaselineFile == [exists |-> FALSE, parses |-> FALSE, hasItems |-> FALSE, items |-> <<>>]
UnparseableFile == [exists |-> TRUE, parses |-> FALSE, hasItems |-> FALSE, items |-> <<>>]
OtherJsonFile == [exists |-> TRUE, parses |-> TRUE, hasItems |-> FALSE, items |-> <<>>]
BaselineDocument(items) == [exists |-> TRUE, parses |-> TRUE, hasItems |-> TRUE, items |-> items]

\* writeBaseline with counts.set(k, 1): a signature is recorded, not counted
RECURSIVE RecordedEntries(_, _)
RecordedEntries(fs, n) ==
  IF n = 0 THEN <<>>
  ELSE LET before == RecordedEntries(fs, n - 1)
           k == keyOf(fs[n])
       IN  IF \E i \in 1..Len(before) : before[i].key = k THEN before
           ELSE Append(before, [key |-> k, count |-> 1])
writeBaselineUncounted(fs) == BaselineDocument(RecordedEntries(fs, Len(fs)))

\* the file writeBaseline leaves: { version: 1, items } as JSON; the text is
\* kept as the items it encodes (string keys and integer counts survive
\* JSON.stringify / JSON.parse unchanged)
writeBaseline(fs) == BaselineDocument(CountEntries(fs, Len(fs)))

\* JSON.parse of the file, or { version: 1, items: [] } when readFile or
\* JSON.parse throws; the parsed value is returned as it is, whatever its shape
loadBaseline(file) ==
  IF file.exists /\ file.parses THEN [hasItems |-> file.hasItems, items |-> file.items]
  ELSE [hasItems |-> TRUE, items |-> <<>>]

\* new Map(baseline.items.map(i => [i.key, i.count])).get(k) ?? 0: the last
\* item with the key decides
allowed(items, k) ==
  IF \E i \in 1..Len(items) : items[i].key = k
  THEN LET last == CHOOSE i \in 1..Len(items) :
                     items[i].key = k /\ \A j \in (i + 1)..Len(items) : items[j].key # k
       IN  items[last].count
  ELSE 0

NothingSeen(fs) == [k \in {keyOf(fs[i]) : i \in 1..Len(fs)} |-> 0]

\* applyBaseline testing cur <= lim
RECURSIVE ApplyLoopInclusive(_, _, _, _, _)
ApplyLoopInclusive(fs, items, i, seen, kept) ==
  IF i > Len(fs) THEN kept
  ELSE LET k == keyOf(fs[i])
       IN  IF seen[k] <= allowed(items, k)
           THEN ApplyLoopInclusive(fs, items, i + 1, [seen EXCEPT ![k] = @ + 1], kept)
           ELSE ApplyLoopInclusive(fs, items, i + 1, seen, Append(kept, fs[i]))
applyBaselineInclusive(fs, items) == ApplyLoopInclusive(fs, items, 1, NothingSeen(fs), <<>>)

\* applyBaseline without the running counter: a recorded signature is always dropped
applyBaselineUncounted(fs, items) ==
  SelectSeq(fs, LAMBDA f : ~(0 < allowed(items, keyOf(f))))

\* the for-loop of applyBaseline from finding i on; seen is the Map `seen`,
\* kept the array `out`
RECURSIVE ApplyLoop(_, _, _, _, _)
ApplyLoop(fs, items, i, seen, kept) ==
  IF i > Len(fs) THEN kept
  ELSE LET k == keyOf(fs[i])
           cur == seen[k]
           lim == allowed(items, k)
       IN  IF cur < lim
           THEN ApplyLoop(fs, items, i + 1, [seen EXCEPT ![k] = cur + 1], kept)
           ELSE ApplyLoop(fs, items, i + 1, seen, Append(kept, fs[i]))

applyBaseline(fs, items) == ApplyLoop(fs, items, 1, NothingSeen(fs), <<>>)

(***************************************************************************)
(* engine/report.ts                                                        *)
(***************************************************************************)
\* summarize leaving `info` findings out of the counts
summarizeWithoutInfo(fs) ==
  [s \in Severity |-> IF s = "info" THEN 0
                      ELSE Cardinality({i \in 1..Len(fs) : fs[i].severity = s})]

\* findings.reduce((acc, f) => { acc[f.severity] += 1; return acc }, zeros),
\* from finding i on
RECURSIVE SummarizeLoop(_, _, _)
SummarizeLoop(fs, i, counts) ==
  IF i > Len(fs) THEN counts
  ELSE SummarizeLoop(fs, i + 1, [counts EXCEPT ![fs[i].severity] = @ + 1])

summarize(fs) == SummarizeLoop(fs, 1, NoSummary)

\* exitCode testing s.high before s.blocker
exitCodeHighFirst(fs, isStrict) ==
  IF ~isStrict THEN 0
  ELSE LET s == summarize(fs)
       IN  IF s["high"] # 0 THEN 1 ELSE IF s["blocker"] # 0 THEN 2 ELSE 0

exitCode(fs, isStrict) ==
  IF ~isStrict THEN 0
  ELSE LET s == summarize(fs)
       IN  IF s["blocker"] # 0 THEN 2 ELSE IF s["high"] # 0 THEN 1 ELSE 0

(***************************************************************************)
(* cli.ts: what the commands do with the list runRules returned.           *)
(***************************************************************************)
\* findings a run may return; the first two have the same signature
\* ("rule-1|high|/repo/a|1|||m") though they differ in file, line and message
FindingUniverse ==
  {Finding("rule-1", "high", "m", "/repo/a|1", Undefined, Undefined),
   Finding("rule-1", "high", "|m", "/repo/a", 1, Undefined),
   Finding("rule-2", "blocker", "secret", "/repo/b", 3, 0),
   Finding("rule-2", "med", "secret", "/repo/b", 3, 0),
   Finding("rule-3", "low", "slow", "/repo/c", 1, 4),
   Finding("rule-3", "info", "Rule crashed: boom", "/repo", Undefined, Undefined)}

\* baseline files written by hand: none, or up to two items, a key possibly twice
BaselineKeys == {"rule-1|high|/repo/a|1|||m", "rule-2|blocker|/repo/b|3|0|secret"}
BaselineItems == {[key |-> k, count |-> n] : k \in BaselineKeys, n \in 0..2}
BaselineFiles ==
  {NoBaselineFile, UnparseableFile, OtherJsonFile}
  \cup {BaselineDocument(items) :
          items \in {<<>>} \cup {<<a>> : a \in BaselineItems}
                    \cup {<<a, b>> : a \in {c \in BaselineItems : c.count > 0},
                                     b \in BaselineItems}}

RunIdle ==
  /\ ctx = Context("auto", <<>>)
  /\ rules = <<>>
  /\ out = <<>>
  /\ pc = "idle"
  /\ ri = 1
  /\ acc = <<>>
  /\ discoveredAuth = Unset
  /\ writes = 0
  /\ invoked = <<>>
  /\ seenAuth = {}
  /\ prepass = "pending"
  /\ settled = {}

ScanInit ==
  /\ \E n \in 0..MaxFindings : findings \in [1..n -> FindingUniverse]
  /\ baselineFile \in BaselineFiles
  /\ recorded = FALSE
  /\ result = <<>>
  /\ again = <<>>
  /\ strict = FALSE
  /\ exitStatus = Undefined
  /\ phase = "ran"

\* baseline init: await writeBaseline(outPath, findings)
BaselineInit ==
  /\ phase = "ran"
  /\ ~recorded
  /\ baselineFile' = writeBaseline(findings)
  /\ recorded' = TRUE
  /\ UNCHANGED <<findings, result, again, strict, exitStatus, phase>>
  /\ UNCHANGED runVars
  /\ UNCHANGED unitVars

\* scan --baseline <file>: findings = applyBaseline(findings, await loadBaseline(path))
ScanAppliesBaseline ==
  /\ phase = "ran"
  /\ LET baseline == loadBaseline(baselineFile)
     IN  /\ baseline.hasItems
         /\ result' = applyBaseline(findings, baseline.items)
  /\ phase' = "suppressed"
  /\ UNCHANGED <<findings, baselineFile, recorded, again, strict, exitStatus>>
  /\ UNCHANGED runVars
  /\ UNCHANGED unitVars

\* scan --baseline <file> on a file that parses to a value without an `items`
\* array: baseline.items.map throws a TypeError inside applyBaseline, the
\* action's promise rejects, and the process ends with status 1 and no report
ScanBaselineThrows ==
  /\ phase = "ran"
  /\ ~loadBaseline(baselineFile).hasItems
  /\ exitStatus' = 1
  /\ phase' = "crashed"
  /\ UNCHANGED <<findings, baselineFile, recorded, result, again, strict>>
  /\ UNCHANGED runVars
  /\ UNCHANGED unitVars

\* scan without --baseline: the list is left as runRules returned it
ScanSkipsBaseline ==
  /\ phase = "ran"
  /\ result' = findings
  /\ phase' = "unfiltered"
  /\ UNCHANGED <<findings, baselineFile, recorded, again, strict, exitStatus>>
  /\ UNCHANGED runVars
  /\ UNCHANGED unitVars

\* the same baseline applied to the list it has already been applied to
ApplyAgain ==
  /\ phase = "suppressed"
  /\ again' = applyBaseline(result, loadBaseline(baselineFile).items)
  /\ phase' = "resuppressed"
  /\ UNCHANGED <<findings, baselineFile, recorded, result, strict, exitStatus>>
  /\ UNCHANGED runVars
  /\ UNCHANGED unitVars

\* the report made from the list runRules returned, before suppression
ExitBeforeSuppression ==
  /\ phase \in {"suppressed", "unfiltered"}
  /\ summary' = summarize(findings)
  /\ \E isStrict \in BOOLEAN :
       /\ strict' = isStrict
       /\ exitStatus' = exitCode(findings, isStrict)
  /\ phase' = "exited"
  /\ UNCHANGED <<findings, baselineFile, recorded, result, again>>
  /\ UNCHANGED runVars
  /\ UNCHANGED <<fileCode, idx, callName, extracted, whereBlock, tenantKeyFound, sarif,
                 fileConfig, cliOverride, step>>

\* const summary = summarize(findings); ... the report is written ...
\* process.exitCode = exitCode(findings, Boolean(opts.strict))
Exit ==
  /\ phase \in {"suppressed", "unfiltered"}
  /\ summary' = summarize(result)
  /\ \E isStrict \in BOOLEAN :
       /\ strict' = isStrict
       /\ exitStatus' = exitCode(result, isStrict)
  /\ phase' = "exited"
  /\ UNCHANGED <<findings, baselineFile, recorded, result, again>>
  /\ UNCHANGED runVars
  /\ UNCHANGED <<fileCode, idx, callName, extracted, whereBlock, tenantKeyFound, sarif,
                 fileConfig, cliOverride, step>>

InitScan == RunIdle /\ ScanInit /\ UnitIdle

NextScan ==
  \/ BaselineInit
  \/ ScanAppliesBaseline
  \/ ScanBaselineThrows
  \/ ScanSkipsBaseline
  \/ ApplyAgain
  \/ Exit

SpecScan == InitScan /\ [][NextScan]_vars

(***************************************************************************)
(* Properties of the baseline engine and of the exit contract.             *)
(***************************************************************************)
\* the signature of a finding: its six fields joined with bars
Signature(f) ==
  f.ruleId \o "|" \o f.severity \o "|" \o f.file \o "|"
  \o (IF f.line = Undefined THEN "" ELSE ToString(f.line)) \o "|"
  \o (IF f.col = Undefined THEN "" ELSE ToString(f.col)) \o "|" \o f.message

Occurrences(fs, sig) == Cardinality({i \in 1..Len(fs) : Signature(fs[i]) = sig})

\* the count the loaded baseline records for a signature (0 when it has none;
\* the last item decides when a hand-written file repeats a key)
BaselineCount(sig) ==
  LET items == loadBaseline(baselineFile).items
      at == {i \in 1..Len(items) : items[i].key = sig}
  IN  IF at = {} THEN 0 ELSE items[CHOOSE i \in at : \A j \in at : j <= i].count

Min(a, b) == IF a <= b THEN a ELSE b

\* finding i is one of the first BaselineCount occurrences of its signature
AmongFirst(fs, i) ==
  Cardinality({j \in 1..(i - 1) : Signature(fs[j]) = Signature(fs[i])})
    < BaselineCount(Signature(fs[i]))

\* the findings up to n that are not among the first occurrences, in order
RECURSIVE Surfaced(_, _)
Surfaced(fs, n) ==
  IF n = 0 THEN <<>>
  ELSE Surfaced(fs, n - 1) \o (IF AmongFirst(fs, n) THEN <<>> ELSE <<fs[n]>>)

\* C3: baseline round trip.  A baseline recorded from a finding list
\* suppresses the whole list.
C3_RoundTrip == (phase = "suppressed" /\ recorded) => result = <<>>

\* a list with a repeated signature went through the round trip
C3_Witness ==
  /\ phase = "suppressed"
  /\ recorded
  /\ result = <<>>
  /\ \E i, j \in 1..Len(findings) : i < j /\ Signature(findings[i]) = Signature(findings[j])

\* C4: for each signature min(occurrences, baseline count) findings are
\* suppressed, they are the first such occurrences, and the others are kept
\* unchanged in their order.
C4_FirstOccurrencesSuppressed ==
  phase = "suppressed" =>
    /\ result = Surfaced(findings, Len(findings))
    /\ \A i \in 1..Len(findings) :
         LET sig == Signature(findings[i])
         IN  Occurrences(findings, sig) - Occurrences(result, sig)
               = Min(Occurrences(findings, sig), BaselineCount(sig))

\* a baseline count of 1 met two occurrences: one suppressed, the second surfaced
C4_Witness ==
  /\ phase = "suppressed"
  /\ \E i, j \in 1..Len(findings) :
       /\ i < j
       /\ Signature(findings[i]) = Signature(findings[j])
       /\ findings[i] # findings[j]
       /\ Occurrences(findings, Signature(findings[i])) = 2
       /\ BaselineCount(Signature(findings[i])) = 1
       /\ result = SubSeq(findings, 1, i - 1) \o SubSeq(findings, i + 1, Len(findings))

\* C5 as stated: applying the baseline to the result of applying it changes nothing.
C5_Idempotent == phase = "resuppressed" => again = result

\* no signature with a positive baseline count occurs more often than that count
NoExcess ==
  \A i \in 1..Len(findings) :
    LET sig == Signature(findings[i])
    IN  BaselineCount(sig) = 0 \/ Occurrences(findings, sig) <= BaselineCount(sig)

\* C5 amended: the second application changes nothing exactly when no
\* signature with a positive baseline count occurs in the list more often
\* than that count; otherwise it suppresses further occurrences.
C5_IdempotentUnlessExcess ==
  phase = "resuppressed" =>
    /\ again = result <=> NoExcess
    /\ ~NoExcess => Len(again) < Len(result)

\* the baseline suppressed something and the second application changed nothing
C5_Witness ==
  /\ phase = "resuppressed"
  /\ NoExcess
  /\ Len(result) < Len(findings)
  /\ result # <<>>
  /\ again = result

\* C10: in strict mode the status is 2 with a blocker finding, else 1 with a
\* high finding, else 0; without strict mode it is 0.
C10_ExitStatus ==
  phase = "exited" =>
    exitStatus =
      (IF ~strict THEN 0
       ELSE IF \E i \in 1..Len(result) : result[i].severity = "blocker" THEN 2
       ELSE IF \E i \in 1..Len(result) : result[i].severity = "high" THEN 1
       ELSE 0)

\* strict mode, a blocker together with high and lesser findings: status 2
C10_Witness ==
  /\ phase = "exited"
  /\ strict
  /\ exitStatus = 2
  /\ \E i \in 1..Len(result) : result[i].severity = "high"
  /\ \E i \in 1..Len(result) : result[i].severity \in {"med", "low", "info"}

\* the findings of a list that have the severity sev
OfSeverity(fs, sev) == Cardinality({i \in 1..Len(fs) : fs[i].severity = sev})

\* C26: the scan reports and exits after suppression: no summary and no exit
\* status exist before the baseline step is over, the summary counts the
\* findings that remain after suppression and the strict exit status is
\* nonzero only when a blocker or high finding remains.
C26_ReportAfterSuppression ==
  /\ phase \in {"ran", "suppressed", "unfiltered", "resuppressed"} =>
       (summary = NoSummary /\ exitStatus = Undefined)
  /\ phase = "exited" =>
       /\ \A sev \in Severity : summary[sev] = OfSeverity(result, sev)
       /\ exitStatus # 0 =>
            (strict /\ \E i \in 1..Len(result) : result[i].severity \in {"blocker", "high"})

\* strict mode, a blocker that the baseline covers: status 0 and no blocker in
\* the summary
C26_Witness ==
  /\ phase = "exited"
  /\ strict
  /\ exitStatus = 0
  /\ summary["blocker"] = 0
  /\ \E i \in 1..Len(findings) : findings[i].severity = "blocker"

\* C12: with a baseline file that is missing, unparseable, or parseable but
\* not of the baseline shape, scan --baseline completes and suppresses nothing.
C12_BaselineLoadNeverFatal ==
  (~baselineFile.exists \/ ~baselineFile.parses \/ ~baselineFile.hasItems)
    => /\ phase # "crashed"
       /\ phase = "suppressed" => result = findings

(***************************************************************************)
(* rules/prisma: the snippet object-scanner of missingTenantFilter and of   *)
(* writeTenantBoundary (two copies of the same code).  Indices are 0-based  *)
(* as in the source.                                                        *)
(***************************************************************************)
MaxText == 5   \* longest enumerated text

SliceBefore == 150
SliceAfter == 6000

\* what a function typed `string | null` returns
Null == [isNull |-> TRUE, text |-> ""]
Str(t) == [isNull |-> FALSE, text |-> t]

\* snippet[i]: the character, or undefined (written "") outside the string
CharAt(s, i) == IF 0 <= i /\ i < Len(s) THEN SubSeq(s, i + 1, i + 1) ELSE ""

\* s.slice(a, b) for 0 <= a <= b <= s.length
Slice(s, a, b) == SubSeq(s, a + 1, b)

\* s.indexOf(p, from): the least index at or after from where p occurs, or -1
IndexOf(s, p, from) ==
  LET hits == {k \in from..(Len(s) - Len(p)) : SubSeq(s, k + 1, k + Len(p)) = p}
  IN  IF hits = {} THEN -1 ELSE CHOOSE k \in hits : \A h \in hits : k <= h

\* /\s/.test(ch)
IsSpace(ch) == ch \in {" ", "\n", "\t", "\r"}

\* _shared.ts firstLineCol. pre.split(/\r?\n/): as many lines as newlines plus one; the last line is
\* what follows the last newline
firstLineCol(code, at) ==
  LET pre == Slice(code, 0, IF at > 0 THEN at ELSE 0)
      nls == {k \in 1..Len(pre) : SubSeq(pre, k, k) = "\n"}
      last == IF nls = {} THEN 0 ELSE CHOOSE k \in nls : \A h \in nls : h <= k
  IN  [line |-> Cardinality(nls) + 1, col |-> Len(pre) - last]

sliceAround(code, at, before, after) ==
  LET start == IF at - before > 0 THEN at - before ELSE 0
      end == IF at + after < Len(code) THEN at + after ELSE Len(code)
  IN  [start |-> start, text |-> Slice(code, start, end)]

\* SkipLoop that knows no comments
RECURSIVE SkipWhitespaceOnly(_, _)
SkipWhitespaceOnly(snippet, i) ==
  IF i < Len(snippet) /\ IsSpace(CharAt(snippet, i)) THEN SkipWhitespaceOnly(snippet, i + 1) ELSE i

\* the while-loop that skips whitespace and comments from index i on: the
\* index it stops at, or -1 where the loop body returns null
RECURSIVE SkipLoop(_, _)
SkipLoop(snippet, i) ==
  IF ~(i < Len(snippet)) THEN i
  ELSE LET ch == CharAt(snippet, i)
       IN  IF IsSpace(ch) THEN SkipLoop(snippet, i + 1)
           ELSE IF ch = "/" /\ CharAt(snippet, i + 1) = "/"
           THEN LET nl == IndexOf(snippet, "\n", i + 2)
                IN  IF nl < 0 THEN -1 ELSE SkipLoop(snippet, nl + 1)
           ELSE IF ch = "/" /\ CharAt(snippet, i + 1) = "*"
           THEN LET end == IndexOf(snippet, "*/", i + 2)
                IN  IF end < 0 THEN -1 ELSE SkipLoop(snippet, end + 2)
           ELSE i

\* BraceLoop returning at the first closing brace, whatever the depth
RECURSIVE BraceLoopFirstClose(_, _, _, _)
BraceLoopFirstClose(snippet, firstBrace, j, depth) ==
  IF ~(j < Len(snippet)) THEN Null
  ELSE IF CharAt(snippet, j) = "}" THEN Str(Slice(snippet, firstBrace, j + 1))
  ELSE BraceLoopFirstClose(snippet, firstBrace, j + 1, depth)

\* the for-loop that tracks the brace depth from index j on
RECURSIVE BraceLoop(_, _, _, _)
BraceLoop(snippet, firstBrace, j, depth) ==
  IF ~(j < Len(snippet)) THEN Null
  ELSE LET ch == CharAt(snippet, j)
           d == IF ch = "{" THEN depth + 1 ELSE IF ch = "}" THEN depth - 1 ELSE depth
       IN  IF d = 0 THEN Str(Slice(snippet, firstBrace, j + 1))
           ELSE BraceLoop(snippet, firstBrace, j + 1, d)

extractInlineFirstArgObject(snippet) ==
  LET openParen == IndexOf(snippet, "(", 0)
  IN  IF openParen < 0 THEN Null
      ELSE LET i == SkipLoop(snippet, openParen + 1)
           IN  IF i < 0 THEN Null
               ELSE IF CharAt(snippet, i) # "{" THEN Null
               ELSE BraceLoop(snippet, i, i, 0)

\* texts a scanned file may hold: every text of up to MaxText characters over
\* the characters the scanner tells apart, and some call sites
Alphabet == {"(", "{", "}", "/", "*", "\n", "a"}
RECURSIVE Texts(_)
Texts(n) ==
  IF n = 0 THEN {""}
  ELSE LET ts == Texts(n - 1) IN ts \cup {t \o c : t \in ts, c \in Alphabet}
CallSites ==
  {"foo(/* x */ { a: 1 })", "foo(args)", "foo(getArgs())",
   "db.user.findMany( // all\n\t{ where: { id } })", "db.user.findMany({ where: { id: 1 }",
   "f(/* { */ x)", "f(// {}", "f(/*/ {})", "f ( \r\n {}{} )"}

InitExtract ==
  /\ RunIdle
  /\ ScanIdle
  /\ \/ fileCode \in Texts(MaxText) /\ idx = 0
     \/ fileCode \in CallSites /\ idx \in {0, 2}
  /\ callName = ""
  /\ extracted = Null
  /\ whereBlock = Null
  /\ tenantKeyFound = FALSE
  /\ summary = NoSummary
  /\ sarif = <<>>
  /\ ConfigIdle
  /\ step = "call-site"

\* const { text } = sliceAround(code, idx, 150, 6000);
\* const argObj = extractInlineFirstArgObject(text);
ExtractArgument ==
  /\ step = "call-site"
  /\ extracted' = extractInlineFirstArgObject(sliceAround(fileCode, idx, SliceBefore, SliceAfter).text)
  /\ step' = "extracted"
  /\ UNCHANGED <<fileCode, idx, callName, whereBlock, tenantKeyFound, summary, sarif, fileConfig, cliOverride>>
  /\ UNCHANGED runVars
  /\ UNCHANGED scanVars

NextExtract == ExtractArgument
SpecExtract == InitExtract /\ [][NextExtract]_vars

(***************************************************************************)
(* Properties of the snippet object-scanner.                               *)
(***************************************************************************)
\* opening braces minus closing braces of a string
BraceDepth(s) ==
  Cardinality({k \in 1..Len(s) : SubSeq(s, k, k) = "{"})
  - Cardinality({k \in 1..Len(s) : SubSeq(s, k, k) = "}"})

\* C13: the extractor returns none, or a substring of the text that begins
\* with an opening brace, ends with a closing brace and whose brace depth is
\* zero at its last character and nowhere before; a text without a closing
\* brace gives none.
C13_ScannerTotality ==
  step = "extracted" =>
    /\ ~extracted.isNull =>
         LET r == extracted.text
         IN  /\ Len(r) >= 2
             /\ SubSeq(r, 1, 1) = "{"
             /\ SubSeq(r, Len(r), Len(r)) = "}"
             /\ \E a \in 0..(Len(fileCode) - Len(r)) : SubSeq(fileCode, a + 1, a + Len(r)) = r
             /\ \A k \in 1..Len(r) : (BraceDepth(SubSeq(r, 1, k)) = 0) <=> (k = Len(r))
    /\ (\A k \in 1..Len(fileCode) : SubSeq(fileCode, k, k) # "}") => extracted.isNull

\* a nested literal followed by more text is returned up to its matching brace
C13_Witness ==
  /\ step = "extracted"
  /\ ~extracted.isNull
  /\ \E k \in 1..Len(extracted.text) : BraceDepth(SubSeq(extracted.text, 1, k)) = 2
  /\ Len(fileCode) > Len(extracted.text) + 1
  /\ SubSeq(fileCode, Len(fileCode), Len(fileCode)) = ")"

\* the lexer of whitespace and comments, one character at a time: the state
\* after reading s from state q ("fail" once a significant character is read)
RECURSIVE TriviaState(_, _)
TriviaState(s, q) ==
  IF s = "" \/ q = "fail" THEN q
  ELSE LET c == SubSeq(s, 1, 1)
           rest == SubSeq(s, 2, Len(s))
       IN  TriviaState(rest,
             CASE q = "code" -> IF IsSpace(c) THEN "code" ELSE IF c = "/" THEN "slash" ELSE "fail"
               [] q = "slash" -> IF c = "/" THEN "line" ELSE IF c = "*" THEN "block" ELSE "fail"
               [] q = "line" -> IF c = "\n" THEN "code" ELSE "line"
               [] q = "block" -> IF c = "*" THEN "star" ELSE "block"
               [] q = "star" -> IF c = "/" THEN "code" ELSE IF c = "*" THEN "star" ELSE "block")

\* s is whitespace, complete line comments and complete block comments only
OnlyTrivia(s) == TriviaState(s, "code") = "code"

\* C14: what the extractor returns starts at an opening brace that only
\* whitespace, line comments and block comments separate from the first
\* opening parenthesis; "foo(/* x */ { a: 1 })" gives "{ a: 1 }" and a call
\* whose first argument is a variable or a call gives none.
C14_CommentSkipping ==
  step = "extracted" =>
    /\ ~extracted.isNull =>
         \E o \in 1..Len(fileCode) : \E b \in (o + 1)..Len(fileCode) :
           /\ SubSeq(fileCode, o, o) = "("
           /\ \A k \in 1..(o - 1) : SubSeq(fileCode, k, k) # "("
           /\ OnlyTrivia(SubSeq(fileCode, o + 1, b - 1))
           /\ SubSeq(fileCode, b, b + Len(extracted.text) - 1) = extracted.text
    /\ (fileCode = "foo(/* x */ { a: 1 })" /\ idx = 0) => extracted = Str("{ a: 1 }")
    /\ fileCode \in {"foo(args)", "foo(getArgs())"} => extracted.isNull

\* a literal found behind a line comment, a newline and a tab
C14_Witness ==
  /\ step = "extracted"
  /\ fileCode = "db.user.findMany( // all\n\t{ where: { id } })"
  /\ extracted = Str("{ where: { id } }")

(***************************************************************************)
(* The commands up to the end of the discovery prepass: loadConfig, then    *)
(* runRules (here on an empty rule list).                                   *)
(***************************************************************************)
\* a file whose comments carry hints with unusual path tokens
HintCode ==
  Code(<<>>, <<>>, <<>>,
       <<[marker |-> "public-api", token |-> "/api/health"],
         [marker |-> "public-api", token |-> "//api/status"],
         [marker |-> "public-api-prefix", token |-> "/"],
         [marker |-> "proxy-api-prefix", token |-> "api/embed///"],
         [marker |-> "proxy-api-prefix", token |-> "api/og/"]>>)
CorpusHints ==
  <<File("src/middleware.ts", TRUE, 300, HintCode),
    File("src/app/api/og/route.ts", TRUE, 120, RouteCode)>>

\* API routes: one calls a catalogue guard from a .js file, one calls the guard
\* the configuration file may name, one calls nothing, one cannot be read
CorpusRoutes ==
  <<File("app/api/users/route.js", TRUE, 80,
         Calling(Code(<<"GET">>, <<>>, <<"currentUser">>, <<>>), <<"currentUser">>)),
    File("src/app/api/teams/[id]/route.ts", TRUE, 90,
         Calling(Code(<<"POST">>, <<>>, <<>>, <<>>), <<"checkSession">>)),
    File("src/app/api/health/route.ts", TRUE, 40, Code(<<"GET">>, <<>>, <<>>, <<>>))>>

InitDiscover ==
  /\ ScanIdle
  /\ \E files \in {<<>>, CorpusReadable, CorpusUnreadable, CorpusHints, CorpusRoutes}, stack \in {"nextjs", "vite"} : ctx = Context(stack, files)
  /\ fileConfig \in FileConfigs
  /\ \E kind \in {"auto", "none"} : cliOverride = CliOverride("auto", kind)
  /\ rules = <<>>
  /\ out = <<>>
  /\ pc = "config"
  /\ ri = 1
  /\ acc = <<>>
  /\ discoveredAuth = Unset
  /\ writes = 0
  /\ invoked = <<>>
  /\ seenAuth = {}
  /\ prepass = "pending"
  /\ settled = {}
  /\ fileCode = ""
  /\ idx = 0
  /\ callName = ""
  /\ extracted = Null
  /\ whereBlock = Null
  /\ tenantKeyFound = FALSE
  /\ summary = NoSummary
  /\ sarif = <<>>
  /\ step = "idle"

\* const config = await loadConfig(rootDir, cliOverride, deps); ctx = { ..., config }
LoadConfig ==
  /\ pc = "config"
  /\ ctx' = [ctx EXCEPT !.config = loadConfig(fileConfig, cliOverride, ctx.files)]
  /\ pc' = "prepass"
  /\ UNCHANGED <<rules, out, ri, acc, discoveredAuth, writes, invoked, seenAuth, prepass, settled>>
  /\ UNCHANGED scanVars
  /\ UNCHANGED unitVars

(***************************************************************************)
(* rules/next/apiAuthGuard.ts                                              *)
(***************************************************************************)
\* _shared.ts: p.startsWith("app/api/") || p.includes("/app/api/")
isNextApiRoute(p) == StartsWith(p, "app/api/") \/ Includes(p, "/app/api/")

\* after.replace(/\[([^\]]+)\]/g, ":$1") on a path whose brackets are closed
\* and not empty
RECURSIVE DynamicSegments(_)
DynamicSegments(s) ==
  IF s = "" THEN ""
  ELSE LET ch == SubSeq(s, 1, 1)
       IN  (IF ch = "[" THEN ":" ELSE IF ch = "]" THEN "" ELSE ch) \o DynamicSegments(SubSeq(s, 2, Len(s)))

\* "app/api/teams/[id]/route.ts" gives "/api/teams/:id" (no path here has an
\* empty or unclosed bracket, so "[" becomes ":" and "]" goes)
toRoutePathFromRelPath(rp) ==
  LET at == IndexOf(rp, "app/api/", 0)
      after == Slice(rp, at + 8, Len(rp))
      suffixes == {x \in {"/route.ts", "/route.tsx", "/route.js", "/route.jsx"} : EndsWith(after, x)}
      noRouteFile == IF suffixes = {} THEN after
                     ELSE LET x == CHOOSE x \in suffixes : TRUE
                          IN  SubSeq(after, 1, Len(after) - Len(x))
      routeish == DynamicSegments(noRouteFile)
  IN  IF at < 0 THEN "" ELSE "/api/" \o routeish

\* nextApiAuthGuardRule.run: [ok |-> TRUE, findings] when the promise resolves,
\* [ok |-> FALSE, error] when a read rejects.  code.includes("vibecheck:public")
\* is true for the two public-api markers as well; firstLineCol(code, 0) does
\* not depend on the code.
nextApiAuthGuard(c, discovered) ==
  LET guards == IF c.config.authGuards # <<>> THEN c.config.authGuards
                ELSE IF discovered.guards # <<>> THEN discovered.guards
                ELSE <<"getServerSession", "auth">>
      routes == SelectSeq(c.files, LAMBDA f : isNextApiRoute(f.rel))
      unreadable == {k \in 1..Len(routes) : ~readText(routes[k], c.config.maxFileBytes).ok}
      code(f) == readText(f, c.config.maxFileBytes).code
      suppressed(f) == \E k \in 1..Len(code(f).hints) :
                         code(f).hints[k].marker \in {"public", "public-api", "public-api-prefix"}
      hasGuard(f) == \E k \in 1..Len(guards) : guards[k] \in Range(code(f).calls)
      flagged == SelectSeq(routes, LAMBDA f : ~code(f).empty /\ ~suppressed(f) /\ ~hasGuard(f))
      intended(f) ==
        LET routePath == toRoutePathFromRelPath(f.rel)
        IN  /\ routePath # ""
            /\ \/ routePath \in Range(discovered.publicApiExact)
               \/ \E k \in 1..Len(discovered.publicApiPrefix) : StartsWith(routePath, discovered.publicApiPrefix[k])
               \/ \E k \in 1..Len(discovered.proxyApiPrefix) : StartsWith(routePath, discovered.proxyApiPrefix[k])
      finding(f) ==
        Finding("next-api-auth-guard", IF intended(f) THEN "info" ELSE "high",
                "API route appears to lack an auth guard call."
                  \o (IF intended(f) THEN " (appears intentionally public/proxy; verify this is intended)" ELSE "")
                  \o " If it is intentionally public, add comment \"vibecheck:public\".",
                f.abs, firstLineCol("", 0).line, firstLineCol("", 0).col)
  IN  IF unreadable # {}
      THEN [ok |-> FALSE,
            error |-> readText(routes[CHOOSE k \in unreadable : \A h \in unreadable : k <= h],
                               c.config.maxFileBytes).error]
      ELSE [ok |-> TRUE, findings |-> [k \in 1..Len(flagged) |-> finding(flagged[k])]]

\* const findings = await rule.run(ctx).catch(...); out.push(...findings), for
\* the rule next-api-auth-guard, which rulesForStack hands over for nextjs and auto
ApiAuthGuardRun ==
  /\ pc = "loop"
  /\ step = "idle"
  /\ ctx.repo.stack \in {"nextjs", "auto"}
  /\ LET run == nextApiAuthGuard(ctx, discoveredAuth)
     IN  out' = out \o (IF run.ok THEN run.findings
                        ELSE <<RuleCrash(ctx, [id |-> "next-api-auth-guard"], ErrorValue(run.error))>>)
  /\ step' = "guarded"
  /\ UNCHANGED <<ctx, rules, pc, ri, acc, discoveredAuth, writes, invoked, seenAuth, prepass, settled>>
  /\ UNCHANGED scanVars
  /\ UNCHANGED <<fileCode, idx, callName, extracted, whereBlock, tenantKeyFound, summary, sarif,
                 fileConfig, cliOverride>>

NextDiscover ==
  \/ LoadConfig
  \/ ApiAuthGuardRun
  \/ PrepassResolves
  \/ PrepassRejects
  \/ Return
SpecDiscover == InitDiscover /\ [][NextDiscover]_vars

(***************************************************************************)
(* Properties of the discovery prepass.                                    *)
(***************************************************************************)
NoDuplicates(xs) == \A i, j \in 1..Len(xs) : xs[i] = xs[j] => i = j

PathLists == {"publicApiExact", "publicApiPrefix", "proxyApiPrefix"}

\* C16: the lists of the discovered signals hold no duplicates, and hold every
\* guard name of the configuration's guard-function list and every public or
\* proxy path and guard name the configuration file gives under "auth".
C16_MergePolicy ==
  prepass = "resolved" =>
    /\ \A l \in PathLists \cup {"guards"} : NoDuplicates(discoveredAuth[l])
    /\ \A g \in Range(ctx.config.authGuards) : g \in Range(discoveredAuth.guards)
    /\ (fileConfig.hasAuth /\ fileConfig.auth.isObject) =>
         /\ \A g \in Range(fileConfig.auth.guards) :
              Trim(g) # "" => Trim(g) \in Range(discoveredAuth.guards)
         /\ \A l \in PathLists : \A p \in Range(fileConfig.auth[l]) :
              normalizeApiPath(p) \in Range(discoveredAuth[l])

\* C17: every path of the three path lists starts with exactly one slash and
\* does not end with a slash.
C17_PathsNormalized ==
  prepass = "resolved" =>
    \A l \in PathLists : \A p \in Range(discoveredAuth[l]) :
      /\ StartsWith(p, "/")
      /\ ~StartsWith(p, "//")
      /\ ~EndsWith(p, "/")

(***************************************************************************)
(* engine/sarif.ts and the report step of the scan command.                *)
(***************************************************************************)
\* one element of runs[0].results
SarifResult(f, level, rootDir) ==
  [ruleId |-> f.ruleId,
   level |-> level,
   message |-> f.message,
   uri |-> IF StartsWith(f.file, rootDir)
           THEN SubSeq(f.file, Len(rootDir) + 2, Len(f.file)) ELSE f.file,
   startLine |-> IF f.line = Undefined THEN 1 ELSE f.line,
   startColumn |-> (IF f.col = Undefined THEN 0 ELSE f.col) + 1]

\* toSarif reporting `low` as a warning
toSarifLowAsWarning(fs, rootDir) ==
  [i \in 1..Len(fs) |->
     SarifResult(fs[i],
                 IF fs[i].severity \in {"blocker", "high"} THEN "error"
                 ELSE IF fs[i].severity \in {"med", "low"} THEN "warning" ELSE "note",
                 rootDir)]

\* runs[0].results of the log toSarif returns
toSarif(fs, rootDir) ==
  [i \in 1..Len(fs) |->
     SarifResult(fs[i],
                 IF fs[i].severity = "blocker" \/ fs[i].severity = "high" THEN "error"
                 ELSE IF fs[i].severity = "med" THEN "warning" ELSE "note",
                 rootDir)]

InitReport ==
  /\ RunIdle
  /\ \E n \in 0..MaxFindings : findings \in [1..n -> FindingUniverse]
  /\ baselineFile = NoBaselineFile
  /\ recorded = FALSE
  /\ result = <<>>
  /\ again = <<>>
  /\ strict = FALSE
  /\ exitStatus = Undefined
  /\ phase = "idle"
  /\ ConfigIdle
  /\ fileCode = ""
  /\ idx = 0
  /\ callName = ""
  /\ extracted = Null
  /\ whereBlock = Null
  /\ tenantKeyFound = FALSE
  /\ summary = NoSummary
  /\ sarif = <<>>
  /\ step = "findings"

\* const summary = summarize(findings)
Summarize ==
  /\ step = "findings"
  /\ summary' = summarize(findings)
  /\ step' = "summarized"
  /\ UNCHANGED <<fileCode, idx, callName, extracted, whereBlock, tenantKeyFound, sarif, fileConfig, cliOverride>>
  /\ UNCHANGED runVars
  /\ UNCHANGED scanVars

\* format === "sarif": const sarif = toSarif(findings, rootDir)
ReportSarif ==
  /\ step = "summarized"
  /\ sarif' = toSarif(findings, RootDir)
  /\ step' = "sarif-written"
  /\ UNCHANGED <<fileCode, idx, callName, extracted, whereBlock, tenantKeyFound, summary, fileConfig, cliOverride>>
  /\ UNCHANGED runVars
  /\ UNCHANGED scanVars

\* format "json" or "console": the summary and the findings are printed
ReportSummary ==
  /\ step = "summarized"
  /\ step' = "printed"
  /\ UNCHANGED <<fileCode, idx, callName, extracted, whereBlock, tenantKeyFound, summary, sarif, fileConfig, cliOverride>>
  /\ UNCHANGED runVars
  /\ UNCHANGED scanVars

NextReport ==
  \/ Summarize
  \/ ReportSarif
  \/ ReportSummary
SpecReport == InitReport /\ [][NextReport]_vars

(***************************************************************************)
(* Properties of the report.                                               *)
(***************************************************************************)
\* C19: the SARIF log holds one result per finding, in the order of the
\* findings, with level error for blocker and high, warning for med, and
\* note for low and info.
C19_SarifLevels ==
  step = "sarif-written" =>
    /\ Len(sarif) = Len(findings)
    /\ \A i \in 1..Len(findings) :
         /\ sarif[i].ruleId = findings[i].ruleId
         /\ sarif[i].message = findings[i].message
         /\ findings[i].severity \in {"blocker", "high"} => sarif[i].level = "error"
         /\ findings[i].severity = "med" => sarif[i].level = "warning"
         /\ findings[i].severity \in {"low", "info"} => sarif[i].level = "note"

\* a log with an error, a warning and a note, in the order of the findings
C19_Witness ==
  /\ step = "sarif-written"
  /\ Len(sarif) = 3
  /\ sarif[1].level = "note" /\ sarif[2].level = "error" /\ sarif[3].level = "warning"
  /\ findings[1].severity = "low"

\* C20: the five counts of the summary add up to the number of findings, and
\* each is the number of findings of its severity.
C20_SummaryCounts ==
  step # "findings" =>
    /\ DOMAIN summary = {"blocker", "high", "med", "low", "info"}
    /\ summary["blocker"] + summary["high"] + summary["med"] + summary["low"] + summary["info"]
         = Len(findings)
    /\ \A s \in DOMAIN summary :
         summary[s] = Cardinality({i \in 1..Len(findings) : findings[i].severity = s})

\* two findings of one severity and one of another
C20_Witness ==
  /\ step = "summarized"
  /\ Len(findings) = 3
  /\ summary["high"] = 2
  /\ summary["info"] = 1

(***************************************************************************)
(* rules/prisma/missingTenantFilter.ts: the body of the call-site loop of   *)
(* the tenant heuristic (writeTenantBoundary.ts has the same helpers).      *)
(***************************************************************************)
MaxTokens == 4   \* longest enumerated run of tokens inside an object literal

\* the characters \w matches
WordChars ==
  {SubSeq(UpperCase, k, k) : k \in 1..Len(UpperCase)}
  \cup {SubSeq(LowerCase, k, k) : k \in 1..Len(LowerCase)}
  \cup {"0", "1", "2", "3", "4", "5", "6", "7", "8", "9", "_"}

\* \b at index k: exactly one of s[k-1], s[k] is a word character
Boundary(s, k) == (CharAt(s, k - 1) \in WordChars) # (CharAt(s, k) \in WordChars)

\* the indices where /\b<word>\b\s*:/ matches in s (word made of word characters)
WordColonMatches(s, word) ==
  {k \in 0..(Len(s) - Len(word)) :
     /\ Slice(s, k, k + Len(word)) = word
     /\ Boundary(s, k)
     /\ Boundary(s, k + Len(word))
     /\ \E j \in (k + Len(word))..(Len(s) - 1) :
          /\ CharAt(s, j) = ":"
          /\ \A i \in (k + Len(word))..(j - 1) : IsSpace(CharAt(s, i))}

\* the indices where /\.<callName>\s*\(/g matches in code
findAllCallSites(code, name) ==
  {k \in 0..(Len(code) - Len(name) - 1) :
     /\ Slice(code, k, k + 1 + Len(name)) = "." \o name
     /\ \E j \in (k + 1 + Len(name))..(Len(code) - 1) :
          /\ CharAt(code, j) = "("
          /\ \A i \in (k + 1 + Len(name))..(j - 1) : IsSpace(CharAt(code, i))}

\* /vibecheck:tenant-ok/.test(code.slice(Math.max(0, absIdx - 300), absIdx))
hasSuppression(code, absIdx) ==
  Includes(Slice(code, IF absIdx - 300 > 0 THEN absIdx - 300 ELSE 0, absIdx), "vibecheck:tenant-ok")

extractWhereBlock(argObj) ==
  LET hits == WordColonMatches(argObj, "where")
  IN  IF hits = {} THEN Null
      ELSE LET whereIdx == CHOOSE k \in hits : \A h \in hits : k <= h
               start == IndexOf(argObj, "{", whereIdx)
           IN  IF start < 0 THEN Null ELSE BraceLoop(argObj, start, start, 0)

\* whereHasTenantKey testing for the key as a substring
whereMentionsTenantKey(block, tenantKeys) ==
  \E i \in 1..Len(tenantKeys) : Includes(block, tenantKeys[i])

\* new RegExp(`\\b${key}\\b\\s*:`, "m").test(whereBlock) for some key
whereHasTenantKey(block, tenantKeys) ==
  \E i \in 1..Len(tenantKeys) : WordColonMatches(block, tenantKeys[i]) # {}

\* ctx.config.tenantKeys ?? [...], ctx.config.tenantReadCalls ?? [...]
TenantKeys == <<"workspaceId", "orgId", "tenantId", "accountId", "teamId">>
TenantReadCalls == <<"findMany", "findFirst">>

\* every run of up to n tokens, joined
RECURSIVE TokenRuns(_, _)
TokenRuns(tokens, n) ==
  IF n = 0 THEN {""}
  ELSE LET ts == TokenRuns(tokens, n - 1) IN ts \cup {t \o c : t \in ts, c \in tokens}

\* files with one call whose argument is a literal: the value of `where` is a
\* block of key tokens, or the literal is a run of property tokens
LiteralFiles ==
  LET KeyTokens == {"orgId", "orgIdentifier", ":", " ", "$", "1", "{", "}"}
      PropertyTokens == {"where", ":", "{", "}", "data", ",", "w"}
  IN  {".findMany({where:{" \o t \o "}})" : t \in TokenRuns(KeyTokens, MaxTokens)}
      \cup {".findMany({" \o t \o "})" : t \in TokenRuns(PropertyTokens, MaxTokens)}
\* files as they are written
SourceFiles ==
  {"db.user.findMany({ where: { orgId: 1 } })",
   "db.user.findMany({ where: { orgIdentifier: 1 } })",
   "db.user.findMany({ where: { id: 1 } })",
   "db.user\n  .findMany({ where: { id: 1 } })",
   "db.user\n.findFirst({ where: { id: 1 } })",
   "log({ where: { id } });\ndb.user.findMany(args)",
   "log(id);\r\ndb.user.findMany({ where: { id } })",
   "db.user.findMany({ where: cond, select: { id: true } })",
   "// vibecheck:tenant-ok\ndb.user.findMany({ where: { id: 1 } })",
   "db.a.findMany({ where: { teamId } }); db.b.findFirst ({ where: { id } })"}

InitTenant ==
  /\ RunIdle
  /\ ScanIdle
  /\ fileCode \in LiteralFiles \cup SourceFiles
  /\ \E c \in Range(TenantReadCalls) : callName = c
  /\ idx \in findAllCallSites(fileCode, callName)
  /\ extracted = Null
  /\ whereBlock = Null
  /\ tenantKeyFound = FALSE
  /\ summary = NoSummary
  /\ sarif = <<>>
  /\ ConfigIdle
  /\ step = "call-site"

\* if (hasSuppression(code, idx)) continue;
SkipSuppressed ==
  /\ step = "call-site"
  /\ hasSuppression(fileCode, idx)
  /\ step' = "skipped"
  /\ UNCHANGED <<fileCode, idx, callName, extracted, whereBlock, tenantKeyFound, summary, sarif,
                 fileConfig, cliOverride>>
  /\ UNCHANGED runVars
  /\ UNCHANGED scanVars

\* const { text } = sliceAround(code, idx, 150, 6000);
\* const argObj = extractInlineFirstArgObject(text); if (!argObj) continue;
ExtractCallArgument ==
  /\ ~hasSuppression(fileCode, idx)
  /\ ExtractArgument

\* const whereBlock = extractWhereBlock(argObj); if (!whereBlock) continue;
ExtractWhere ==
  /\ step = "extracted"
  /\ ~extracted.isNull
  /\ whereBlock' = extractWhereBlock(extracted.text)
  /\ step' = "where"
  /\ UNCHANGED <<fileCode, idx, callName, extracted, tenantKeyFound, summary, sarif,
                 fileConfig, cliOverride>>
  /\ UNCHANGED runVars
  /\ UNCHANGED scanVars

\* if (whereHasTenantKey(whereBlock, tenantKeys)) continue;
TestTenantKey ==
  /\ step = "where"
  /\ ~whereBlock.isNull
  /\ tenantKeyFound' = whereHasTenantKey(whereBlock.text, TenantKeys)
  /\ step' = "tested"
  /\ UNCHANGED <<fileCode, idx, callName, extracted, whereBlock, summary, sarif,
                 fileConfig, cliOverride>>
  /\ UNCHANGED runVars
  /\ UNCHANGED scanVars

\* out.push({ ruleId, severity: "info", file: abs, ...firstLineCol(code, idx), message })
EmitTenantFinding ==
  /\ step = "tested"
  /\ ~tenantKeyFound
  /\ LET at == firstLineCol(fileCode, idx)
     IN  acc' = Append(acc, Finding("prisma-missing-tenant-filter", "info",
                                    "Prisma " \o callName \o "() has a where: but does not mention tenant/workspace/org constraints (heuristic).",
                                    RootDir \o "/app/api/users/route.ts", at.line, at.col))
  /\ step' = "emitted"
  /\ UNCHANGED <<ctx, rules, out, pc, ri, discoveredAuth, writes, invoked, seenAuth, prepass, settled>>
  /\ UNCHANGED scanVars
  /\ UNCHANGED <<fileCode, idx, callName, extracted, whereBlock, tenantKeyFound, summary, sarif,
                 fileConfig, cliOverride>>

NextTenant ==
  \/ SkipSuppressed
  \/ ExtractCallArgument
  \/ ExtractWhere
  \/ TestTenantKey
  \/ EmitTenantFinding
SpecTenant == InitTenant /\ [][NextTenant]_vars

\* the characters of an ECMAScript identifier (ASCII)
IdentChars == WordChars \cup {"$"}

\* key occurs in s as a maximal run of the characters chars, followed by
\* optional whitespace and a colon
KeyAsRun(s, key, chars) ==
  \E a \in 0..(Len(s) - Len(key)) :
    /\ SubSeq(s, a + 1, a + Len(key)) = key
    /\ CharAt(s, a - 1) \notin chars
    /\ CharAt(s, a + Len(key)) \notin chars
    /\ \E c \in (a + Len(key) + 1)..Len(s) :
         /\ SubSeq(s, c, c) = ":"
         /\ \A k \in (a + Len(key) + 1)..(c - 1) : SubSeq(s, k, k) \in {" ", "\n", "\t", "\r"}

\* C21 as stated: the tenant-key test succeeds exactly when a tenant key
\* occurs in the block as a complete identifier followed by a colon; a longer
\* identifier that contains the key does not count, "{ orgId: 1 }" does.
C21_WholeIdentifier ==
  step = "tested" =>
    (tenantKeyFound <=> \E i \in 1..Len(TenantKeys) : KeyAsRun(whereBlock.text, TenantKeys[i], IdentChars))

\* C21: the tenant-key test is a word-boundary match: it succeeds exactly when
\* a tenant key occurs in the block as a maximal run of ASCII letters, digits
\* and underscores followed by optional whitespace and a colon, at any depth;
\* "orgIdentifier:" does not count for orgId, "orgId:" and "$orgId:" do.
C21_WordBoundary ==
  step = "tested" =>
    /\ tenantKeyFound <=> \E i \in 1..Len(TenantKeys) : KeyAsRun(whereBlock.text, TenantKeys[i], WordChars)
    /\ whereBlock.text = "{ orgIdentifier: 1 }" => ~tenantKeyFound
    /\ whereBlock.text = "{ orgId: 1 }" => tenantKeyFound

\* the key behind a dollar sign is found
C21_Witness ==
  /\ step = "tested"
  /\ tenantKeyFound
  /\ whereBlock.text = "{$orgId:1}"

WhereColonAt(arg, a, c) ==
  /\ a + 4 < c
  /\ c <= Len(arg)
  /\ SubSeq(arg, a, a + 4) = "where"
  /\ CharAt(arg, a - 2) \notin IdentChars
  /\ \A k \in (a + 5)..(c - 1) : SubSeq(arg, k, k) \in {" ", "\n", "\t", "\r"}
  /\ SubSeq(arg, c, c) = ":"

\* C23: the where block is none, or the depth-balanced block that is the value
\* of the first `where:` of the literal: it starts at the first character
\* behind that colon that is not whitespace.
C23_ValueOfFirstWhere ==
  (step \in {"where", "tested", "emitted"} /\ ~whereBlock.isNull) =>
    LET arg == extracted.text
        r == whereBlock.text
    IN  \E a \in 1..Len(arg) : \E c \in (a + 5)..Len(arg) : \E b \in (c + 1)..(Len(arg) - Len(r) + 1) :
          /\ WhereColonAt(arg, a, c)
          /\ \A a2 \in 1..(a - 1) : \A c2 \in (a2 + 5)..Len(arg) : ~WhereColonAt(arg, a2, c2)
          /\ \A k \in (c + 1)..(b - 1) : SubSeq(arg, k, k) \in {" ", "\n", "\t", "\r"}
          /\ SubSeq(arg, b, b + Len(r) - 1) = r
          /\ SubSeq(r, 1, 1) = "{"
          /\ \A k \in 1..Len(r) : (BraceDepth(SubSeq(r, 1, k)) = 0) <=> (k = Len(r))

\* C24: every finding that carries a position has line >= 1 and col >= 1.
C24_OneBasedPosition ==
  \A k \in 1..Len(acc) :
    acc[k].line # Undefined => (acc[k].line >= 1 /\ acc[k].col >= 1)

(***************************************************************************)
(* rules/supabase/fundamentals.ts: supabaseServiceRoleKeyRule.run on one    *)
(* file of ctx.files.                                                       *)
(***************************************************************************)
\* serviceKeyPatterns, in the order of the array; bounded marks \b...\b
ServiceKeyPatterns ==
  <<[text |-> "SUPABASE_SERVICE_ROLE_KEY", bounded |-> TRUE],
    [text |-> "SUPABASE_SERVICE_KEY", bounded |-> TRUE],
    [text |-> "SERVICE_ROLE_KEY", bounded |-> TRUE],
    [text |-> "process.env.SUPABASE_SERVICE_ROLE_KEY", bounded |-> FALSE],
    [text |-> "process.env.SUPABASE_SERVICE_KEY", bounded |-> FALSE],
    [text |-> "process.env.SERVICE_ROLE_KEY", bounded |-> FALSE],
    [text |-> "import.meta.env.VITE_SUPABASE_SERVICE_ROLE_KEY", bounded |-> FALSE],
    [text |-> "import.meta.env.VITE_SUPABASE_SERVICE_KEY", bounded |-> FALSE],
    [text |-> "SERVICE_ROLE", bounded |-> TRUE],
    [text |-> "SUPABASE_SERVICE", bounded |-> TRUE]>>

\* code.match(pattern): the indices of the matches of a pattern
PatternMatches(code, pat) ==
  {k \in 0..(Len(code) - Len(pat.text)) :
     /\ Slice(code, k, k + Len(pat.text)) = pat.text
     /\ pat.bounded => (Boundary(code, k) /\ Boundary(code, k + Len(pat.text)))}

\* isClientComponent(code) || isClientSideFile(rp)
isClientCode(code, rp) ==
  LET head == Slice(code, 0, IF Len(code) < 250 THEN Len(code) ELSE 250)
      Spaces(a, b) == \A k \in a..(b - 1) : IsSpace(CharAt(head, k))
      isClientComponent ==
        \E k \in 0..(Len(head) - 12) :
          /\ Slice(head, k, k + 12) \in {"\"use client\"", "'use client'"}
          /\ \E n \in 0..k : (n = 0 \/ CharAt(head, n - 1) = "\n") /\ Spaces(n, k)
          /\ \E e \in (k + 12)..Len(head) :
               /\ e = Len(head) \/ CharAt(head, e) = "\n"
               /\ \/ Spaces(k + 12, e)
                  \/ \E semi \in (k + 12)..(e - 1) :
                       CharAt(head, semi) = ";" /\ Spaces(k + 12, semi) /\ Spaces(semi + 1, e)
      isClientSideFile ==
        \E pattern \in {"/pages/", "/components/", "/src/components/", "/app/", "/client/", ".client."} :
          Includes(rp, pattern)
  IN  isClientComponent \/ isClientSideFile

\* for (const match of matches) { out.push(...); if (... .length >= 3) break; }
RECURSIVE MatchLoop(_, _, _)
MatchLoop(found, n, finding) ==
  IF n = 0 THEN found
  ELSE LET pushed == Append(found, finding)
           sameFile == {k \in 1..Len(pushed) :
                          pushed[k].file = finding.file /\ pushed[k].ruleId = "supabase-service-role-key"}
       IN  IF Cardinality(sameFile) >= 3 THEN pushed ELSE MatchLoop(pushed, n - 1, finding)

\* for (const pattern of serviceKeyPatterns) { const matches = code.match(pattern); ... };
\* client is isClientCode(code, rp), which the loop computes anew for every match
RECURSIVE PatternLoop(_, _, _, _, _)
PatternLoop(code, abs, client, i, found) ==
  IF i > Len(ServiceKeyPatterns) THEN found
  ELSE LET match == ServiceKeyPatterns[i].text
           at == firstLineCol(code, IndexOf(code, match, 0))
           finding ==
             Finding("supabase-service-role-key",
                     IF client THEN "blocker" ELSE "high",
                     IF client
                       THEN "Service role key '" \o match \o "' detected in client-side code. This is a critical security vulnerability."
                       ELSE "Service role key '" \o match \o "' usage detected. Ensure this is only used in secure server-side contexts.",
                     abs, at.line, at.col)
       IN  PatternLoop(code, abs, client, i + 1,
                       MatchLoop(found, Cardinality(PatternMatches(code, ServiceKeyPatterns[i])), finding))

\* files of statements that name service keys, with or without the directive
ServiceKeyFiles ==
  LET Statements == {"SUPABASE_SERVICE_ROLE_KEY;", "SERVICE_ROLE_KEY;",
                     "process.env.SUPABASE_SERVICE_KEY;", "SERVICE_ROLE;", "x;"}
  IN  {d \o t : d \in {"", "\"use client\";\n"}, t \in TokenRuns(Statements, MaxTokens)}

InitServiceKey ==
  /\ RunIdle
  /\ ScanIdle
  /\ fileCode \in ServiceKeyFiles
  /\ callName = ""
  /\ idx = 0
  /\ extracted = Null
  /\ whereBlock = Null
  /\ tenantKeyFound = FALSE
  /\ summary = NoSummary
  /\ sarif = <<>>
  /\ ConfigIdle
  /\ step = "file"

\* the body of `for (const abs of ctx.files)` for a readable source file that
\* holds no createClient call
ServiceRoleKeyRun ==
  /\ step = "file"
  /\ fileCode # ""
  /\ LET abs == RootDir \o "/src/lib/supabase.ts"
     IN  acc' = PatternLoop(fileCode, abs, isClientCode(fileCode, SubSeq(abs, Len(RootDir) + 2, Len(abs))), 1, acc)
  /\ step' = "scanned"
  /\ UNCHANGED <<ctx, rules, out, pc, ri, discoveredAuth, writes, invoked, seenAuth, prepass, settled>>
  /\ UNCHANGED scanVars
  /\ UNCHANGED <<fileCode, idx, callName, extracted, whereBlock, tenantKeyFound, summary, sarif,
                 fileConfig, cliOverride>>

NextServiceKey == ServiceRoleKeyRun
SpecServiceKey == InitServiceKey /\ [][NextServiceKey]_vars

\* C25: the supabase-service-role-key rule emits at most 3 findings for a file.
C25_AtMostThreePerFile ==
  step = "scanned" =>
    Cardinality({k \in 1..Len(acc) : acc[k].ruleId = "supabase-service-role-key"}) <= 3

\* C27: after a successful prepass, an API route file that calls a function
\* whose name is in the published guard set gets no next-api-auth-guard
\* finding, whatever the configuration's guard list contains.
C27_DiscoveredGuardsHonoured ==
  (step = "guarded" /\ prepass = "resolved") =>
    \A k \in 1..Len(ctx.files) :
      LET f == ctx.files[k]
      IN  (/\ isNextApiRoute(f.rel)
           /\ \E g \in Range(discoveredAuth.guards) : g \in Range(f.code.calls))
          => ~\E j \in 1..Len(out) : out[j].ruleId = "next-api-auth-guard" /\ out[j].file = f.abs

\* C28: the guard set a successful prepass publishes contains every name of
\* the catalogue of well-known guard functions, for every corpus.
C28_CatalogueAlwaysPublished ==
  prepass = "resolved" =>
    /\ discoveredAuth.state = "signals"
    /\ \A k \in 1..Len(COMMON_GUARDS) : COMMON_GUARDS[k] \in Range(discoveredAuth.guards)

\* the prepass of an empty corpus has published the catalogue
C28_Witness ==
  /\ prepass = "resolved"
  /\ ctx.files = <<>>
  /\ "withFeatureFlag" \in Range(discoveredAuth.guards)

(***************************************************************************)
(* cli.ts: the scan and baseline-init commands from the options to the     *)
(* return of runRules.                                                     *)
(***************************************************************************)
parseStack(v) ==
  LET s == ToLower(v)
  IN  IF s \in {"auto", "nextjs", "vite"} THEN s
      ELSE IF s \in {"nestjs", "nest"} THEN "nestjs"
      ELSE "auto"

\* scanner/repoDetect.ts: the stack read from the marker files that exist
detectRepo(present) ==
  IF present \cap {"next.config.js", "next.config.mjs", "next.config.ts", "app"} # {} THEN "nextjs"
  ELSE IF present \cap {"vite.config.ts", "vite.config.js", "vite.config.mjs"} # {} THEN "vite"
  ELSE IF present \cap {"nest-cli.json", "src/main.ts"} # {} THEN "nestjs"
  ELSE "auto"

\* rules/index.ts ALL_RULES with the stack each rule declares; what a rule's
\* run does on the repository is one of the async behaviours
ALL_RULES ==
  LET Rule(id, stack, run) == [id |-> id, stack |-> stack, run |-> run]
      Everywhere == {"nextjs", "vite", "nestjs", "auto"}
      NextOnly == {"nextjs", "auto"}
  IN  <<Rule("cors-wildcard-with-credentials", Everywhere, Run(1, "return", NoValue)),
        Rule("next-client-env-leak", NextOnly, Run(1, "return", NoValue)),
        Rule("next-server-only-import-in-client", NextOnly, Run(0, "return", NoValue)),
        Rule("next-api-auth-guard", NextOnly, Run(2, "return", NoValue)),
        Rule("next-middleware-matcher-coverage", NextOnly, Run(0, "return", NoValue)),
        Rule("next-heavy-client-imports", NextOnly, Run(1, "return", NoValue)),
        Rule("next-async-waterfall", NextOnly, Run(0, "reject", StringValue("oops"))),
        Rule("vite-client-env-leak", {"vite", "auto"}, Run(2, "return", NoValue)),
        Rule("prisma-missing-tenant-filter", Everywhere, Run(1, "return", NoValue)),
        Rule("prisma-write-tenant-boundary", NextOnly, Run(2, "reject", ErrorValue("boom")))>>

\* rulesForStack returning every rule that lists the wildcard
rulesForAnyStack(stack) == SelectSeq(ALL_RULES, LAMBDA r : "auto" \in r.stack)

\* ALL_RULES.filter((r) => r.stack.includes(stack))
rulesForStack(stack) == SelectSeq(ALL_RULES, LAMBDA r : stack \in r.stack)

InitCommand ==
  /\ ScanIdle
  /\ \E present \in SUBSET {"next.config.js", "app", "vite.config.ts", "nest-cli.json", "src/main.ts"},
        files \in {CorpusReadable, CorpusUnreadable} :
       ctx = Context(detectRepo(present), files)
  /\ fileConfig \in {NoFileConfig} \cup {WithStack(NoFileConfig, s) : s \in StackName}
  /\ \E v \in {"auto", "nextjs", "Vite", "nest", "NestJS", "react"} :
       cliOverride = CliOverride(parseStack(v), "auto")
  /\ rules = <<>>
  /\ out = <<>>
  /\ pc = "config"
  /\ ri = 1
  /\ acc = <<>>
  /\ discoveredAuth = Unset
  /\ writes = 0
  /\ invoked = <<>>
  /\ seenAuth = {}
  /\ prepass = "pending"
  /\ settled = {}
  /\ fileCode = ""
  /\ idx = 0
  /\ callName = ""
  /\ extracted = Null
  /\ whereBlock = Null
  /\ tenantKeyFound = FALSE
  /\ summary = NoSummary
  /\ sarif = <<>>
  /\ step = "idle"

\* const config = await loadConfig(rootDir, cliOverride, deps);
\* const stack = config.stack !== "auto" ? config.stack : repo.stack;
\* const rules = rulesForStack(stack); ctx = { ..., config, repo: { ...repo, stack } }
ResolveStack ==
  /\ pc = "config"
  /\ LET config == loadConfig(fileConfig, cliOverride, ctx.files)
         stack == IF config.stack # "auto" THEN config.stack ELSE ctx.repo.stack
     IN  /\ ctx' = [ctx EXCEPT !.config = config, !.repo = [stack |-> stack]]
         /\ rules' = rulesForStack(stack)
         /\ invoked' = [j \in 1..Len(rulesForStack(stack)) |-> 0]
  /\ pc' = "prepass"
  /\ UNCHANGED <<out, ri, acc, discoveredAuth, writes, seenAuth, prepass, settled>>
  /\ UNCHANGED scanVars
  /\ UNCHANGED unitVars

\* every rule of ALL_RULES lists the wildcard, so the `continue` of the loop
\* of runRules is never taken for a list rulesForStack returned
NextCommand ==
  \/ ResolveStack
  \/ PrepassResolves
  \/ PrepassRejects
  \/ InvokeRule
  \/ RuleEmits
  \/ RuleResolves
  \/ RuleRejects
  \/ Return

SpecCommand == InitCommand /\ [][NextCommand]_vars

\* C29: only the rules whose stack set contains the resolved stack are handed
\* to the engine, in the order of ALL_RULES; a rule that does not list the
\* resolved stack is never invoked and contributes no finding, although it
\* lists the wildcard and the engine's own filter would let it run.
C29_OnlyRulesOfStack ==
  pc # "config" =>
    LET s == ctx.repo.stack
        listed == {k \in 1..Len(ALL_RULES) : s \in ALL_RULES[k].stack}
    IN  /\ Len(rules) = Cardinality(listed)
        /\ \A j \in 1..Len(rules) : \E k \in listed :
             /\ rules[j] = ALL_RULES[k]
             /\ j = Cardinality({h \in listed : h <= k})
        /\ \A k \in 1..Len(ALL_RULES) : k \notin listed =>
             /\ "auto" \in ALL_RULES[k].stack
             /\ \A j \in 1..Len(out) : out[j].ruleId # ALL_RULES[k].id
             /\ \A j \in 1..Len(acc) : acc[j].ruleId # ALL_RULES[k].id
        /\ \A j \in 1..Len(rules) : invoked[j] <= 1
        /\ pc = "returned" => \A j \in 1..Len(rules) : invoked[j] = 1

\* a vite scan has returned: the vite rule reported and no nextjs-only rule ran
C29_Witness ==
  /\ pc = "returned"
  /\ ctx.repo.stack = "vite"
  /\ Len(rules) = 3
  /\ \E j \in 1..Len(out) : out[j].ruleId = "vite-client-env-leak"

\* C30: the stack a scan runs with is the --stack option when it is not auto,
\* otherwise the stack of the configuration file when it is not auto,
\* otherwise the detected stack.
C30_StackPrecedence ==
  [][pc = "config" =>
       ctx'.repo.stack =
         (IF cliOverride.stack # "auto" THEN cliOverride.stack
          ELSE IF fileConfig.hasStack /\ fileConfig.stack # "auto" THEN fileConfig.stack
          ELSE ctx.repo.stack)]_vars

====
